---------------------------- MODULE Spec2Model ----------------------------
(***************************************************************************)
(* clockiPy: the occurrence-grouping and deviation-allocation engine of    *)
(* ReportGenerator (src/clockipy/reports/report_generator.py), with the    *)
(* TimeEntry model (src/clockipy/reports/time_entry.py) and the label      *)
(* parser (src/clockipy/utils/format_utils.py).                            *)
(*                                                                         *)
(* A label (description) is a sequence of one-character strings.  The      *)
(* three marker glyphs are single elements of that sequence:               *)
(*   "<dice>"  the spontaneous marker,  "<cal>"  the scheduled marker,     *)
(*   "<rep>"   the recurring marker.                                       *)
(* Python dictionaries keep insertion order; a dictionary is a sequence of *)
(* records [k |-> key, v |-> value] in insertion order.                    *)
(***************************************************************************)
EXTENDS Integers, Sequences, FiniteSets, TLC

VARIABLES
    entries,                   \* self.entries: the batch handed to __init__
    idx,                       \* position of the entry loop (line 39), 1-based
    occ_idx,                   \* position of the occurrence loop (line 71)
    total_duration,            \* self.total_duration
    project_durations,         \* self.project_durations (defaultdict(int))
    tag_durations,             \* self.tag_durations (defaultdict(int))
    spontaneousity_durations,  \* self.spontaneousity_durations
    task_planned_measured,     \* self.task_planned_measured
    task_occurrences,          \* self.task_occurrences
    occurrences,               \* self.occurrences
    plan_deviation_totals,     \* self.plan_deviation_totals
    project_plan_diffs,        \* self.project_plan_diffs
    subproject_plan_diffs,     \* self.subproject_plan_diffs
    tag_plan_diffs,            \* self.tag_plan_diffs
    spont_plan_diffs,          \* self.spont_plan_diffs
    report,                    \* what generate_report has produced
    call,                      \* a call of a parser or of TimeEntry(...)
    result                     \* what that call returned or raised

vars == <<entries, idx, occ_idx, total_duration, project_durations,
          tag_durations, spontaneousity_durations, task_planned_measured,
          task_occurrences, occurrences, plan_deviation_totals,
          project_plan_diffs, subproject_plan_diffs, tag_plan_diffs,
          spont_plan_diffs, report, call, result>>

-----------------------------------------------------------------------------
(* Bounds of the model.                                                    *)

\* Longest batch of the grouping specification (Spec).
MaxEntries == 2

\* Longest batch of the tag-allocation specification (SpecTags).
MaxTagEntries == 2

\* Longest batch of the start-timestamp specification (SpecStarts).
MaxStartEntries == 2

\* Entries of a batch of the report specification (SpecReport).
MaxReportEntries == 2

\* Entries of a batch of the repetition specification (SpecRepeat).
MaxRepeatEntries == 2

\* Calls of generate_report on one generator.
MaxCalls == 2

\* Runs of the program that write to one Markdown file (SpecMarkdown).
MaxRuns == 3

\* Pages the paginated request loop asks for (SpecApi).
MaxPages == 4

\* Ordinary years whose months get a week breakdown (SpecMonth).
PoolYears == 28

\* Most pieces a label of the parser specification (SpecParse) is made of.
MaxLabelTokens == 5

\* Most pieces a duration text of the parser specification is made of.
MaxDurationTokens == 4

-----------------------------------------------------------------------------
(* Generic helpers.                                                        *)

None == "None"

Abs(x) == IF x < 0 THEN -x ELSE x

RECURSIVE SumSeq(_)
SumSeq(s) == IF s = <<>> THEN 0 ELSE Head(s) + SumSeq(Tail(s))

\* dict: the keys, in no order
DictKeys(d) == {d[i].k : i \in DOMAIN d}

\* dict[k] for a key that is present
DictAt(d, k) == d[CHOOSE i \in DOMAIN d : d[i].k = k].v

\* defaultdict: d[k], the default factory's value dflt for a missing key
DictGet(d, k, dflt) == IF k \in DictKeys(d) THEN DictAt(d, k) ELSE dflt

\* d[k] = v: a present key keeps its place, a new key goes to the end
DictSet(d, k, v) ==
    IF k \in DictKeys(d)
    THEN [i \in DOMAIN d |-> IF d[i].k = k THEN [k |-> k, v |-> v] ELSE d[i]]
    ELSE Append(d, [k |-> k, v |-> v])

-----------------------------------------------------------------------------
(* format_utils.parse_planned_from_name                                    *)

DigitChars == {"0", "1", "2", "3", "4", "5", "6", "7", "8", "9"}

DigitValue(c) ==
    CASE c = "0" -> 0 [] c = "1" -> 1 [] c = "2" -> 2 [] c = "3" -> 3
      [] c = "4" -> 4 [] c = "5" -> 5 [] c = "6" -> 6 [] c = "7" -> 7
      [] c = "8" -> 8 [] c = "9" -> 9

\* int() of the digit characters name[a..b]
RECURSIVE IntOf(_, _, _)
IntOf(name, a, b) ==
    IF b < a THEN 0 ELSE IntOf(name, a, b - 1) * 10 + DigitValue(name[b])

IsDigitAt(name, i) == i \in DOMAIN name /\ name[i] \in DigitChars

IsCharAt(name, i, c) == i \in DOMAIN name /\ name[i] = c

\* The end of the longest run of digits that starts at position a
\* (a - 1 when name[a] is no digit): the greedy \d+.
RECURSIVE DigitRunEnd(_, _)
DigitRunEnd(name, a) ==
    IF IsDigitAt(name, a) THEN DigitRunEnd(name, a + 1) ELSE a - 1

\* Whether \{p(\d+):(\d{1,2})\} matches at position i.  ":" and "}" are no
\* digits, so only the longest digit run can be followed by them.
PlannedMatchAt(name, i) ==
    LET j == DigitRunEnd(name, i + 2)
    IN  /\ IsCharAt(name, i, "{")
        /\ IsCharAt(name, i + 1, "p")
        /\ j >= i + 2
        /\ IsCharAt(name, j + 1, ":")
        /\ IsDigitAt(name, j + 2)
        /\ \/ IsCharAt(name, j + 3, "}")
           \/ IsDigitAt(name, j + 3) /\ IsCharAt(name, j + 4, "}")

parse_planned_from_nameLast(name) ==
    LET hits == {i \in DOMAIN name : PlannedMatchAt(name, i)}
    IN  IF hits = {} THEN 0
        ELSE LET i == CHOOSE h \in hits : \A g \in hits : h >= g
                 j == DigitRunEnd(name, i + 2)
                 m == DigitRunEnd(name, j + 2)
             IN  IntOf(name, i + 2, j) * 3600 + IntOf(name, j + 2, m) * 60

\* lines 59-65: re.search finds the leftmost match
parse_planned_from_name(name) ==
    LET hits == {i \in DOMAIN name : PlannedMatchAt(name, i)}
    IN  IF hits = {} THEN 0
        ELSE LET i == CHOOSE h \in hits : \A g \in hits : h <= g
                 j == DigitRunEnd(name, i + 2)
                 m == DigitRunEnd(name, j + 2)
             IN  IntOf(name, i + 2, j) * 3600 + IntOf(name, j + 2, m) * 60

-----------------------------------------------------------------------------
(* time_entry.TimeEntry                                                    *)

Contains(description, glyph) == \E i \in DOMAIN description : description[i] = glyph

\* A start text is <<date, time>> when datetime.fromisoformat accepts it,
\* <<>> when it is empty, and a one-element tuple holding the text when it
\* is anything else.
IsIsoFormat(start) == Len(start) = 2

start_dateUnchecked(start) == IF start = <<>> THEN None ELSE start[1]

\* TimeEntry.start_date: None for a missing start (line 65) and for a text
\* fromisoformat rejects (lines 70-71), else the date part.
start_date(start) ==
    IF start = <<>> THEN None
    ELSE IF IsIsoFormat(start) THEN start[1]
    ELSE None

\* TimeEntry.__init__ for a record whose duration text already parsed to
\* raw.duration seconds.
TimeEntry(raw, index) ==
    [ index          |-> index,
      description    |-> raw.description,
      project_name   |-> raw.project_name,
      task_name      |-> raw.task_name,
      tag_names      |-> raw.tag_names,
      start          |-> raw.start,
      duration_sec   |-> raw.duration,
      planned_sec    |-> parse_planned_from_name(raw.description),
      is_spontaneous |-> Contains(raw.description, "<dice>"),
      is_scheduled   |-> Contains(raw.description, "<cal>"),
      is_recurring   |-> Contains(raw.description, "<rep>") ]

-----------------------------------------------------------------------------
(* Python values handed to the parsers and to TimeEntry.  A value that may *)
(* be None is a record: PyNone, or PyStr(text).  A dictionary of the API   *)
(* is a record of fields, each Absent or Present(value).                   *)

PyNone == [is_none |-> TRUE, text |-> <<>>]

PyStr(text) == [is_none |-> FALSE, text |-> text]

\* bool(v): None and "" are false
Truthy(v) == ~v.is_none /\ v.text # <<>>

Absent == [present |-> FALSE, value |-> PyNone]

Present(v) == [present |-> TRUE, value |-> v]

\* dict.get of a field holding a value that may be None
GetField(field) == IF field.present THEN field.value ELSE PyNone

-----------------------------------------------------------------------------
(* format_utils.parse_clockify_duration                                    *)

\* (?:(\d+)U)? at position p: the longest digit run followed by the unit
\* letter, or nothing (the group's default "0", line 47).
DurationComponent(text, p, unit) ==
    LET j == DigitRunEnd(text, p)
    IN  IF j >= p /\ IsCharAt(text, j + 1, unit)
        THEN [value |-> IntOf(text, p, j), next |-> j + 2]
        ELSE [value |-> 0, next |-> p]

\* lines 40-48: re.match anchors the pattern at the start of the text only
parse_clockify_duration(duration) ==
    IF ~Truthy(duration) THEN 0
    ELSE IF ~(IsCharAt(duration.text, 1, "P") /\ IsCharAt(duration.text, 2, "T")) THEN 0
    ELSE LET h == DurationComponent(duration.text, 3, "H")
             m == DurationComponent(duration.text, h.next, "M")
             s == DurationComponent(duration.text, m.next, "S")
         IN  h.value * 3600 + m.value * 60 + s.value

-----------------------------------------------------------------------------
(* TimeEntry.__init__ from a raw API record (time_entry.py lines 9-38)     *)

NoDescription ==
    <<"N", "o", " ", "d", "e", "s", "c", "r", "i", "p", "t", "i", "o", "n">>

\* The defaults of the signature (lines 9-10)
DefaultProjectName == "No project"

DefaultTaskName == ""

\* What a call that raised leaves: no object.
NoEntry ==
    [ index |-> 0, description |-> <<>>, project_name |-> "", task_name |-> "",
      tag_names |-> <<>>, start |-> PyNone, start_date |-> None, duration_sec |-> 0,
      planned_sec |-> 0, is_spontaneous |-> FALSE, is_scheduled |-> FALSE,
      is_recurring |-> FALSE ]

Returned(value) == [done |-> TRUE, raised |-> None, value |-> value]

Raised(exception) == [done |-> TRUE, raised |-> exception, value |-> NoEntry]

\* line 22: description, else the task's name, else "No description"
DescriptionOf(entry_data) ==
    IF Truthy(GetField(entry_data.description)) THEN GetField(entry_data.description).text
    ELSE IF entry_data.task.present /\ Truthy(GetField(entry_data.task.value.name))
    THEN GetField(entry_data.task.value.name).text
    ELSE NoDescription

\* TimeEntry(entry_data, index, ...): args names which of project_name,
\* task_name, tag_names the caller passes.  entry_data["timeInterval"] and
\* ["start"] are subscripts (line 30) and raise KeyError on a missing key;
\* .get("name") on a task that is null raises AttributeError (line 22).
TimeEntryInit(entry_data, index, args) ==
    IF /\ ~Truthy(GetField(entry_data.description))
       /\ entry_data.task.present
       /\ entry_data.task.value.is_none
    THEN Raised("AttributeError")
    ELSE IF ~entry_data.timeInterval.present THEN Raised("KeyError")
    ELSE IF ~entry_data.timeInterval.value.start.present THEN Raised("KeyError")
    ELSE LET description == DescriptionOf(entry_data)
             start == entry_data.timeInterval.value.start.value
         IN  Returned(
               [ index          |-> index,
                 description    |-> description,
                 project_name   |-> IF args.project_name.present
                                    THEN args.project_name.value
                                    ELSE DefaultProjectName,
                 task_name      |-> IF args.task_name.present
                                    THEN args.task_name.value
                                    ELSE DefaultTaskName,
                 tag_names      |-> IF args.tag_names.present
                                    THEN args.tag_names.value
                                    ELSE <<>>,
                 start          |-> start,
                 start_date     |-> IF ~Truthy(start) THEN None
                                    ELSE start_date(start.text),
                 duration_sec   |-> parse_clockify_duration(
                                       GetField(entry_data.timeInterval.value.duration)),
                 planned_sec    |-> parse_planned_from_name(description),
                 is_spontaneous |-> Contains(description, "<dice>"),
                 is_scheduled   |-> Contains(description, "<cal>"),
                 is_recurring   |-> Contains(description, "<rep>") ])

-----------------------------------------------------------------------------
(* Calls of the parsers and of TimeEntry on their own.                     *)

NoCall == [fn |-> "none"]

NoResult == [done |-> FALSE, raised |-> None]

CallParsePlanned ==
    /\ call.fn = "parse_planned_from_name"
    /\ ~result.done
    /\ result' = [done |-> TRUE, raised |-> None,
                  value |-> parse_planned_from_name(call.name)]
    /\ UNCHANGED <<entries, idx, occ_idx, total_duration, project_durations,
                   tag_durations, spontaneousity_durations, task_planned_measured,
                   task_occurrences, occurrences, plan_deviation_totals,
                   project_plan_diffs, subproject_plan_diffs, tag_plan_diffs,
                   spont_plan_diffs, report, call>>

CallParseDuration ==
    /\ call.fn = "parse_clockify_duration"
    /\ ~result.done
    /\ result' = [done |-> TRUE, raised |-> None,
                  value |-> parse_clockify_duration(call.duration)]
    /\ UNCHANGED <<entries, idx, occ_idx, total_duration, project_durations,
                   tag_durations, spontaneousity_durations, task_planned_measured,
                   task_occurrences, occurrences, plan_deviation_totals,
                   project_plan_diffs, subproject_plan_diffs, tag_plan_diffs,
                   spont_plan_diffs, report, call>>

CallTimeEntry ==
    /\ call.fn = "TimeEntry"
    /\ ~result.done
    /\ result' = TimeEntryInit(call.entry_data, call.index, call.args)
    /\ UNCHANGED <<entries, idx, occ_idx, total_duration, project_durations,
                   tag_durations, spontaneousity_durations, task_planned_measured,
                   task_occurrences, occurrences, plan_deviation_totals,
                   project_plan_diffs, subproject_plan_diffs, tag_plan_diffs,
                   spont_plan_diffs, report, call>>

-----------------------------------------------------------------------------
(* report_generator.ReportGenerator.__init__: the entry loop (lines 39-62) *)

\* for tag in entry.tag_names: tag_durations[tag] += entry.duration_sec
RECURSIVE AddTagDurations(_, _, _)
AddTagDurations(d, tags, secs) ==
    IF tags = <<>> THEN d
    ELSE AddTagDurations(DictSet(d, Head(tags), DictGet(d, Head(tags), 0) + secs),
                         Tail(tags), secs)

AddSpontaneousityBoth(d, entry) ==
    LET e == IF entry.is_spontaneous
             THEN DictSet(d, "<dice>", DictAt(d, "<dice>") + entry.duration_sec)
             ELSE d
    IN  IF entry.is_scheduled
        THEN DictSet(e, "<cal>", DictAt(e, "<cal>") + entry.duration_sec)
        ELSE e

\* lines 46-49: spontaneous wins over scheduled
AddSpontaneousity(d, entry) ==
    IF entry.is_spontaneous
    THEN DictSet(d, "<dice>", DictAt(d, "<dice>") + entry.duration_sec)
    ELSE IF entry.is_scheduled
    THEN DictSet(d, "<cal>", DictAt(d, "<cal>") + entry.duration_sec)
    ELSE d

TaskIdentityByProject(entry) == <<<<>>, entry.project_name, entry.task_name>>

\* line 56
TaskIdentity(entry) == <<entry.description, entry.project_name, entry.task_name>>

OccurrenceDateAlways(entry) == start_date(entry.start)

\* line 57
OccurrenceDate(entry) ==
    IF entry.is_recurring THEN start_date(entry.start) ELSE None

\* line 58
OccKey(entry) == <<TaskIdentity(entry), OccurrenceDate(entry)>>

NewPlannedMeasured == [planned |-> 0, measured |-> 0]

NewOccData == [planned |-> 0, measured |-> 0, entries |-> <<>>]

AddPlannedMeasuredPlannedOnly(d, entry) ==
    DictSet(d, entry.description,
            [planned  |-> DictGet(d, entry.description, NewPlannedMeasured).planned
                            + entry.planned_sec,
             measured |-> DictGet(d, entry.description, NewPlannedMeasured).measured
                            + (IF entry.planned_sec > 0 THEN entry.duration_sec ELSE 0)])

\* lines 52-53
AddPlannedMeasured(d, entry) ==
    DictSet(d, entry.description,
            [planned  |-> DictGet(d, entry.description, NewPlannedMeasured).planned
                            + entry.planned_sec,
             measured |-> DictGet(d, entry.description, NewPlannedMeasured).measured
                            + entry.duration_sec])

ProcessEntry ==
    /\ idx <= Len(entries)
    /\ LET entry == entries[idx]
           occ_data == DictGet(task_occurrences, OccKey(entry), NewOccData)
       IN  /\ total_duration' = total_duration + entry.duration_sec
           /\ project_durations' =
                 DictSet(project_durations, entry.project_name,
                         DictGet(project_durations, entry.project_name, 0)
                           + entry.duration_sec)
           /\ tag_durations' =
                 AddTagDurations(tag_durations, entry.tag_names, entry.duration_sec)
           /\ spontaneousity_durations' =
                 AddSpontaneousity(spontaneousity_durations, entry)
           /\ task_planned_measured' = AddPlannedMeasured(task_planned_measured, entry)
           /\ task_occurrences' =
                 DictSet(task_occurrences, OccKey(entry),
                         [planned  |-> occ_data.planned + entry.planned_sec,
                          measured |-> occ_data.measured + entry.duration_sec,
                          entries  |-> Append(occ_data.entries, entry)])
    /\ idx' = idx + 1
    /\ UNCHANGED <<entries, occ_idx, occurrences, plan_deviation_totals,
                   project_plan_diffs, subproject_plan_diffs, tag_plan_diffs,
                   spont_plan_diffs, report, call, result>>

-----------------------------------------------------------------------------
(* ReportGenerator.__init__: the occurrence loop (lines 71-145)            *)

HasPlanOrZero(planned) == planned >= 0

\* the condition "planned > 0" of lines 75 and 88
HasPlan(planned) == planned > 0

\* line 75
OccDiff(planned, measured) == IF HasPlan(planned) THEN measured - planned ELSE 0

OccurrenceSummaryFirstOnly(key, data) ==
    [ description |-> key[1][1],
      project     |-> key[1][2],
      task_name   |-> key[1][3],
      date        |-> key[2],
      planned     |-> data.planned,
      measured    |-> data.measured,
      diff        |-> OccDiff(data.planned, data.measured),
      entries     |-> SubSeq(data.entries, 1, 1) ]

OccurrenceSummaryFirstMeasured(key, data) ==
    [ description |-> key[1][1],
      project     |-> key[1][2],
      task_name   |-> key[1][3],
      date        |-> key[2],
      planned     |-> data.planned,
      measured    |-> data.measured,
      diff        |-> OccDiff(data.planned, Len(data.entries) * data.entries[1].duration_sec),
      entries     |-> data.entries ]

\* lines 77-86
OccurrenceSummary(key, data) ==
    [ description |-> key[1][1],
      project     |-> key[1][2],
      task_name   |-> key[1][3],
      date        |-> key[2],
      planned     |-> data.planned,
      measured    |-> data.measured,
      diff        |-> OccDiff(data.planned, data.measured),
      entries     |-> data.entries ]

AddTotalsSigned(totals, diff) ==
    [ over  |-> IF diff > 0 THEN totals.over + diff ELSE totals.over,
      under |-> IF diff < 0 THEN totals.under + diff ELSE totals.under,
      abs   |-> totals.abs + diff ]

\* lines 89-93
AddTotals(totals, diff) ==
    [ over  |-> IF diff > 0 THEN totals.over + diff ELSE totals.over,
      under |-> IF diff < 0 THEN totals.under + Abs(diff) ELSE totals.under,
      abs   |-> totals.abs + Abs(diff) ]

NewPlanDiffs == [less_plan |-> 0, more_plan |-> 0]

\* d[key]["more_plan"], d[key]["less_plan"]
MoreOf(d, key) == DictGet(d, key, NewPlanDiffs).more_plan

LessOf(d, key) == DictGet(d, key, NewPlanDiffs).less_plan

\* d[key]["more_plan"] += amount
AddMore(d, key, amount) ==
    LET v == DictGet(d, key, NewPlanDiffs)
    IN  DictSet(d, key, [less_plan |-> v.less_plan, more_plan |-> v.more_plan + amount])

\* d[key]["less_plan"] += amount
AddLess(d, key, amount) ==
    LET v == DictGet(d, key, NewPlanDiffs)
    IN  DictSet(d, key, [less_plan |-> v.less_plan + amount, more_plan |-> v.more_plan])

AddDeviationSwapped(d, key, diff) ==
    IF diff > 0 THEN AddLess(d, key, diff)
    ELSE IF diff < 0 THEN AddMore(d, key, Abs(diff))
    ELSE d

\* lines 96-99, 103-106, 112-115: the whole deviation to one bucket
AddDeviation(d, key, diff) ==
    IF diff > 0 THEN AddMore(d, key, diff)
    ELSE IF diff < 0 THEN AddLess(d, key, Abs(diff))
    ELSE d

SubprojectKeySwapped(occ) == <<occ.project, occ.task_name>>

\* line 102
SubprojectKey(occ) == <<occ.task_name, occ.project>>

SpontSymbolScheduledFirst(first_entry) ==
    IF first_entry.is_scheduled THEN "<cal>" ELSE "<dice>"

\* line 111
SpontSymbol(first_entry) ==
    IF first_entry.is_spontaneous THEN "<dice>" ELSE "<cal>"

\* lines 109-115
AllocateSpontaneity(d, occ) ==
    IF occ.entries # <<>>
       /\ (occ.entries[1].is_spontaneous \/ occ.entries[1].is_scheduled)
    THEN AddDeviation(d, SpontSymbol(occ.entries[1]), occ.diff)
    ELSE d

\* lines 119-124: the occurrence's own tag_durations
RECURSIVE OccTagDurations(_, _)
OccTagDurations(d, occ_entries) ==
    IF occ_entries = <<>> THEN d
    ELSE OccTagDurations(
            AddTagDurations(d, Head(occ_entries).tag_names, Head(occ_entries).duration_sec),
            Tail(occ_entries))

\* lines 120-122: total_occ_duration
RECURSIVE OccTotalDuration(_)
OccTotalDuration(occ_entries) ==
    IF occ_entries = <<>> THEN 0
    ELSE Head(occ_entries).duration_sec + OccTotalDuration(Tail(occ_entries))

\* int(x) with the fraction dropped, for n >= 0, d > 0
RoundDown(n, d) == n \div d

\* int(round(n / d)) for n >= 0, d > 0: Python 3 rounds to the nearest
\* integer and an exact half to the even neighbour.  The code rounds the
\* double abs_diff * (tag_duration / total_occ_duration); on every value the
\* bounded batches produce that double rounds as the exact quotient does.
PyRound(n, d) ==
    LET q == n \div d
        r == n % d
    IN  IF 2 * r < d THEN q
        ELSE IF 2 * r > d THEN q + 1
        ELSE IF q % 2 = 0 THEN q ELSE q + 1

TagShareTruncated(abs_diff, tag_duration, total_occ_duration) ==
    RoundDown(abs_diff * tag_duration, total_occ_duration)

\* lines 139-140: the share of a tag that is not the last one
TagShare(abs_diff, tag_duration, total_occ_duration) ==
    PyRound(abs_diff * tag_duration, total_occ_duration)

TagWeightsUnreset(tag_durs, total) == tag_durs

\* lines 127-130: the weights, with the equal-weight fallback
TagWeights(tag_durs, total) ==
    IF total <= 0
    THEN [i \in DOMAIN tag_durs |-> [k |-> tag_durs[i].k, v |-> 1]]
    ELSE tag_durs

\* line 128
TagTotal(tag_durs, total) == IF total <= 0 THEN Len(tag_durs) ELSE total

LastShareRounded(abs_diff, allocated_sum, tag_duration, total_occ_duration) ==
    TagShare(abs_diff, tag_duration, total_occ_duration)

\* line 137: the last tag takes what is left
LastShare(abs_diff, allocated_sum, tag_duration, total_occ_duration) ==
    abs_diff - allocated_sum

\* lines 135-141: the allocated amounts, in iteration order
RECURSIVE AllocLoop(_, _, _, _, _)
AllocLoop(tag_list, i, abs_diff, total, allocated_sum) ==
    IF i > Len(tag_list) THEN <<>>
    ELSE IF i = Len(tag_list)
    THEN << [k |-> tag_list[i].k,
             v |-> LastShare(abs_diff, allocated_sum, tag_list[i].v, total)] >>
    ELSE LET allocated == TagShare(abs_diff, tag_list[i].v, total)
         IN  << [k |-> tag_list[i].k, v |-> allocated] >>
             \o AllocLoop(tag_list, i + 1, abs_diff, total, allocated_sum + allocated)

TagAllocationsUntagged(occ) ==
    IF occ.diff = 0 THEN <<>>
    ELSE LET tag_durs == OccTagDurations(<<>>, occ.entries)
             total    == OccTotalDuration(occ.entries)
         IN  IF tag_durs = <<>> THEN <<[k |-> "No tag", v |-> Abs(occ.diff)]>>
             ELSE AllocLoop(TagWeights(tag_durs, total), 1, Abs(occ.diff),
                            TagTotal(tag_durs, total), 0)

\* lines 118-141: what each tag of the occurrence is allocated
TagAllocations(occ) ==
    IF occ.diff = 0 THEN <<>>
    ELSE LET tag_durs == OccTagDurations(<<>>, occ.entries)
             total    == OccTotalDuration(occ.entries)
         IN  IF tag_durs = <<>> THEN <<>>
             ELSE AllocLoop(TagWeights(tag_durs, total), 1, Abs(occ.diff),
                            TagTotal(tag_durs, total), 0)

\* lines 142-145
RECURSIVE AddTagAllocations(_, _, _)
AddTagAllocations(d, allocs, diff) ==
    IF allocs = <<>> THEN d
    ELSE AddTagAllocations(
            IF diff > 0 THEN AddMore(d, Head(allocs).k, Head(allocs).v)
                        ELSE AddLess(d, Head(allocs).k, Head(allocs).v),
            Tail(allocs), diff)

BuildOccurrence ==
    /\ idx > Len(entries)
    /\ occ_idx <= Len(task_occurrences)
    /\ LET occ == OccurrenceSummary(task_occurrences[occ_idx].k,
                                    task_occurrences[occ_idx].v)
       IN  /\ occurrences' = Append(occurrences, occ)
           /\ IF HasPlan(occ.planned)
              THEN /\ plan_deviation_totals' = AddTotals(plan_deviation_totals, occ.diff)
                   /\ project_plan_diffs' =
                         AddDeviation(project_plan_diffs, occ.project, occ.diff)
                   /\ subproject_plan_diffs' =
                         AddDeviation(subproject_plan_diffs, SubprojectKey(occ), occ.diff)
                   /\ spont_plan_diffs' = AllocateSpontaneity(spont_plan_diffs, occ)
                   /\ tag_plan_diffs' =
                         AddTagAllocations(tag_plan_diffs, TagAllocations(occ), occ.diff)
              ELSE UNCHANGED <<plan_deviation_totals, project_plan_diffs,
                               subproject_plan_diffs, spont_plan_diffs, tag_plan_diffs>>
    /\ occ_idx' = occ_idx + 1
    /\ UNCHANGED <<entries, idx, total_duration, project_durations, tag_durations,
                   spontaneousity_durations, task_planned_measured, task_occurrences,
                   report, call, result>>

\* __init__ has returned
Built == idx > Len(entries) /\ occ_idx > Len(task_occurrences)

-----------------------------------------------------------------------------
(* format_utils: format_hm and percent.  A text is a sequence of           *)
(* one-character strings.                                                  *)

DigitText == <<"0", "1", "2", "3", "4", "5", "6", "7", "8", "9">>

\* str(n) for n >= 0
RECURSIVE DigitsOf(_)
DigitsOf(n) ==
    IF n < 10 THEN <<DigitText[n + 1]>>
    ELSE DigitsOf(n \div 10) \o <<DigitText[(n % 10) + 1]>>

\* f"{n:02}" for n >= 0
Pad2(n) == IF n < 10 THEN <<"0">> \o DigitsOf(n) ELSE DigitsOf(n)

\* format_utils.format_hm
format_hm(seconds) ==
    IF seconds < 0
    THEN <<"-">> \o Pad2(Abs(seconds) \div 3600) \o <<":">>
               \o Pad2((Abs(seconds) % 3600) \div 60)
    ELSE Pad2(seconds \div 3600) \o <<":">> \o Pad2((seconds % 3600) \div 60)

\* What a Python division by zero leaves in place of a cell.
ZeroDivisionError == <<"ZeroDivisionError">>

\* f"{(val / total * 100):.0f}": the quotient rounded to an integer, an
\* exact half to the even neighbour, with the sign of val kept also in
\* front of a zero ("-0"); the division raises for total = 0.
FormatRatio(val, total) ==
    IF total = 0 THEN ZeroDivisionError
    ELSE IF val < 0 THEN <<"-">> \o DigitsOf(PyRound(Abs(val) * 100, total))
    ELSE DigitsOf(PyRound(val * 100, total))

percentUnguarded(val, total) == FormatRatio(val, total)

\* format_utils.percent (line 79)
percent(val, total) == IF total # 0 THEN FormatRatio(val, total) ELSE <<"0">>

-----------------------------------------------------------------------------
(* list.sort / sorted: stable, ascending by an integer key.  The items are *)
(* records [key |-> the sort key, row |-> the element].                    *)

RECURSIVE InsertByKey(_, _)
InsertByKey(sorted, x) ==
    IF sorted = <<>> THEN <<x>>
    ELSE IF Head(sorted).key <= x.key
    THEN <<Head(sorted)>> \o InsertByKey(Tail(sorted), x)
    ELSE <<x>> \o sorted

RECURSIVE SortByKey(_)
SortByKey(items) ==
    IF items = <<>> THEN <<>>
    ELSE InsertByKey(SortByKey(SubSeq(items, 1, Len(items) - 1)), items[Len(items)])

RowsOf(items) == [i \in DOMAIN items |-> items[i].row]

\* d[key] read for every key of keys in turn: a defaultdict inserts the
\* default value for a key it does not hold.
RECURSIVE ReadAll(_, _)
ReadAll(d, keys) ==
    IF keys = <<>> THEN d
    ELSE ReadAll(DictSet(d, Head(keys), DictGet(d, Head(keys), NewPlanDiffs)),
                 Tail(keys))

KeySeq(d) == [i \in DOMAIN d |-> d[i].k]

-----------------------------------------------------------------------------
(* ReportGenerator.generate_report (lines 147-167) and its tables.         *)

\* TimeEntry.planned_hm, duration_hm, difference_hm (time_entry.py 82-127)
planned_hm(entry) == IF entry.planned_sec # 0 THEN format_hm(entry.planned_sec) ELSE <<>>

difference_hm(entry) ==
    IF entry.planned_sec = 0 THEN <<>>
    ELSE IF entry.duration_sec - entry.planned_sec = 0 THEN <<"0", "0", ":", "0", "0">>
    ELSE (IF entry.duration_sec - entry.planned_sec > 0 THEN <<"+">> ELSE <<"-">>)
            \o format_hm(Abs(entry.duration_sec - entry.planned_sec))

\* lines 195-196: one row per entry.  The cells kept are the index, the
\* three duration texts and the percentage; the name cells repeat the
\* entry's fields and the start / end cells depend on the local time zone.
EntriesTable(day_table) ==
    IF day_table = None THEN <<>>
    ELSE [i \in DOMAIN entries |->
            [ index    |-> entries[i].index,
              planned  |-> planned_hm(entries[i]),
              duration |-> format_hm(entries[i].duration_sec),
              dur_plan |-> difference_hm(entries[i]),
              pct      |-> percent(entries[i].duration_sec, total_duration) ]]

RECURSIVE SubprojectDurationsLast(_, _)
SubprojectDurationsLast(d, es) ==
    IF es = <<>> THEN d
    ELSE SubprojectDurationsLast(
            DictSet(d, <<Head(es).task_name, Head(es).project_name>>,
                    Head(es).duration_sec),
            Tail(es))

\* lines 218-222
RECURSIVE SubprojectDurations(_, _)
SubprojectDurations(d, es) ==
    IF es = <<>> THEN d
    ELSE SubprojectDurations(
            DictSet(d, <<Head(es).task_name, Head(es).project_name>>,
                    DictGet(d, <<Head(es).task_name, Head(es).project_name>>, 0)
                      + Head(es).duration_sec),
            Tail(es))

\* lines 238-239, 283-284, 332-333, 379-380
PlanPercent(amount, secs) == IF secs > 0 THEN percent(amount, secs) ELSE <<"0">>

\* lines 250-252: minutes read back from an "HH:MM" text
parse_duration_for_sort(duration_str) ==
    LET colon == CHOOSE i \in DOMAIN duration_str :
                    duration_str[i] = ":" /\ \A j \in 1..(i - 1) : duration_str[j] # ":"
    IN  IntOf(duration_str, 1, colon - 1) * 60
          + IntOf(duration_str, colon + 1, Len(duration_str))

\* lines 234-254
SubprojectTable(durations) ==
    RowsOf(SortByKey(
        [i \in DOMAIN durations |->
            LET row == [ subproject |-> durations[i].k[1],
                         project    |-> durations[i].k[2],
                         pct        |-> percent(durations[i].v, total_duration),
                         more_pct   |-> PlanPercent(MoreOf(subproject_plan_diffs,
                                                           durations[i].k),
                                                    durations[i].v),
                         less_pct   |-> PlanPercent(LessOf(subproject_plan_diffs,
                                                           durations[i].k),
                                                    durations[i].v),
                         duration   |-> format_hm(durations[i].v) ]
            IN  [key |-> -parse_duration_for_sort(row.duration), row |-> row]]))

\* line 280: sorted(self.project_durations.items(), key=secs, reverse=True)
SortedProjects ==
    RowsOf(SortByKey([i \in DOMAIN project_durations |->
                        [key |-> -project_durations[i].v, row |-> project_durations[i]]]))

\* lines 281-292: one row per project of the sorted list
ProjectRows(sorted) ==
    [i \in DOMAIN sorted |->
        [ project  |-> sorted[i].k,
          pct      |-> percent(sorted[i].v, total_duration),
          more_pct |-> PlanPercent(MoreOf(project_plan_diffs, sorted[i].k), sorted[i].v),
          less_pct |-> PlanPercent(LessOf(project_plan_diffs, sorted[i].k), sorted[i].v),
          duration |-> format_hm(sorted[i].v) ]]

\* lines 279-292
ProjectTable == ProjectRows(SortedProjects)

\* line 321; the glyphs are written as names
custom_tag_order ==
    <<"<alarm> & <candy>", "<alarm> & <hot>", "<turtle> & <candy>", "<turtle> & <hot>">>

\* list.index, 0-based, of an element the list holds
IndexIn(list, x) == (CHOOSE i \in DOMAIN list : list[i] = x) - 1

InList(list, x) == \E i \in DOMAIN list : list[i] = x

\* The tag names of the batches in the order Python's str comparison gives
\* them (by code point: "T" < U+1F422 turtle < U+1F6A8 alarm, and
\* U+1F36D candy < U+1F975 hot).
StrOrder ==
    <<"TagA", "TagB", "TagC", "<turtle> & <candy>", "<turtle> & <hot>",
      "<alarm> & <candy>", "<alarm> & <hot>">>

\* lines 322-326: the pair (place in custom_tag_order or its length, tag),
\* compared first by place and then by tag text; as one integer.
tag_sort_key(tag) ==
    (IF InList(custom_tag_order, tag) THEN IndexIn(custom_tag_order, tag)
     ELSE Len(custom_tag_order)) * (Len(StrOrder) + 1)
    + IndexIn(StrOrder, tag)

\* lines 328-343
TagTable ==
    RowsOf(SortByKey(
        [i \in DOMAIN tag_durations |->
            [ key |-> tag_sort_key(tag_durations[i].k),
              row |-> [ tag      |-> tag_durations[i].k,
                        pct      |-> percent(tag_durations[i].v, total_duration),
                        more_pct |-> PlanPercent(MoreOf(tag_plan_diffs, tag_durations[i].k),
                                                 tag_durations[i].v),
                        less_pct |-> PlanPercent(LessOf(tag_plan_diffs, tag_durations[i].k),
                                                 tag_durations[i].v),
                        duration |-> format_hm(tag_durations[i].v) ] ]]))

\* line 359
SpontTotal == SumSeq([i \in DOMAIN spontaneousity_durations |->
                        spontaneousity_durations[i].v])

\* line 372
spont_order == <<"<cal>", "<dice>">>

\* lines 375-376: the classes with secs > 0, in the dictionary's order
RECURSIVE PositiveItems(_)
PositiveItems(d) ==
    IF d = <<>> THEN <<>>
    ELSE IF Head(d).v > 0 THEN <<Head(d)>> \o PositiveItems(Tail(d))
    ELSE PositiveItems(Tail(d))

spont_sort_keyAsFound(symbol) == 0

\* line 390
spont_sort_key(symbol) ==
    IF InList(spont_order, symbol) THEN IndexIn(spont_order, symbol)
    ELSE Len(spont_order)

\* lines 373-390
SpontTable ==
    LET items == PositiveItems(spontaneousity_durations)
    IN  RowsOf(SortByKey(
            [i \in DOMAIN items |->
                [ key |-> spont_sort_key(items[i].k),
                  row |-> [ symbol   |-> items[i].k,
                            pct      |-> percent(items[i].v, SpontTotal),
                            more_pct |-> PlanPercent(MoreOf(spont_plan_diffs, items[i].k),
                                                     items[i].v),
                            less_pct |-> PlanPercent(LessOf(spont_plan_diffs, items[i].k),
                                                     items[i].v),
                            duration |-> format_hm(items[i].v) ] ]]))

\* lines 417-419
TotalsPercent(amount) ==
    IF total_duration # 0 THEN FormatRatio(amount, total_duration) \o <<"%">>
    ELSE <<"0", "%">>

\* lines 410-423
TotalsTable ==
    << [ total |-> "Duration", pct |-> <<"0", "%">>,
         abs |-> format_hm(total_duration) ],
       [ total |-> "Meas>Plan Total", pct |-> TotalsPercent(plan_deviation_totals.over),
         abs |-> format_hm(plan_deviation_totals.over) ],
       [ total |-> "Meas<Plan Total", pct |-> TotalsPercent(plan_deviation_totals.under),
         abs |-> format_hm(plan_deviation_totals.under) ],
       [ total |-> "Abs(Dur-Plan) Total", pct |-> TotalsPercent(plan_deviation_totals.abs),
         abs |-> format_hm(plan_deviation_totals.abs) ] >>

\* Before generate_report is called.
NoReport ==
    [ done |-> FALSE, raised |-> None, calls |-> 0, sections |-> <<>>,
      entries_table |-> <<>>, subproject_durations |-> <<>>,
      subproject_table |-> <<>>, proj_table |-> <<>>, tag_table |-> <<>>,
      spont_table |-> <<>>, totals_table |-> <<>> ]

HasFault(cell) == \E i \in DOMAIN cell : cell[i] = "ZeroDivisionError"

\* Some percentage of the report could not be computed.
Faulty(r) ==
    \/ \E i \in DOMAIN r.entries_table : HasFault(r.entries_table[i].pct)
    \/ \E t \in {r.subproject_table, r.proj_table, r.tag_table, r.spont_table} :
          \E i \in DOMAIN t :
             HasFault(t[i].pct) \/ HasFault(t[i].more_pct) \/ HasFault(t[i].less_pct)
    \/ \E i \in DOMAIN r.totals_table : HasFault(r.totals_table[i].pct)

\* The sections generate_report prints, in order (lines 160-165): the
\* entries table unless day_table is None (177), the sub-task table when
\* there is an entry (224), the project table, the tag table when a tag was
\* met (309), the spontaneity table when a class has time (360), the totals.
Sections(day_table, durations) ==
    (IF day_table = None THEN <<>> ELSE <<"entries">>)
    \o (IF durations = <<>> THEN <<>> ELSE <<"subproject">>)
    \o <<"project">>
    \o (IF tag_durations = <<>> THEN <<>> ELSE <<"tag">>)
    \o (IF SpontTotal = 0 THEN <<>> ELSE <<"spont">>)
    \o <<"totals">>

\* The summary tables of a report (lines 161-165) over the local
\* subproject_durations of line 218.
Summaries(durations) ==
    [ done |-> TRUE, raised |-> None, calls |-> report.calls + 1,
      sections |-> <<>>, entries_table |-> <<>>,
      subproject_durations |-> durations,
      subproject_table |-> SubprojectTable(durations),
      proj_table |-> ProjectTable,
      tag_table |-> IF tag_durations = <<>> THEN <<>> ELSE TagTable,
      spont_table |-> IF SpontTotal = 0 THEN <<>> ELSE SpontTable,
      totals_table |-> TotalsTable ]

\* The outcome of the call: the report r, or no report when a division by
\* zero ended the call.  Reading the deviation of a row from a defaultdict
\* inserts the key (lines 236, 281, 330, 377).
Returns(r, durations) ==
    IF Faulty(r)
    THEN /\ report' = [NoReport EXCEPT !.done = TRUE, !.raised = "ZeroDivisionError",
                                       !.calls = report.calls + 1]
         /\ UNCHANGED <<subproject_plan_diffs, project_plan_diffs,
                        tag_plan_diffs, spont_plan_diffs>>
    ELSE /\ report' = r
         /\ subproject_plan_diffs' = ReadAll(subproject_plan_diffs, KeySeq(durations))
         /\ project_plan_diffs' = ReadAll(project_plan_diffs, KeySeq(SortedProjects))
         /\ tag_plan_diffs' = ReadAll(tag_plan_diffs, KeySeq(tag_durations))
         /\ spont_plan_diffs' =
               IF SpontTotal = 0 THEN spont_plan_diffs
               ELSE ReadAll(spont_plan_diffs,
                            KeySeq(PositiveItems(spontaneousity_durations)))

\* lines 158-167 for each value of day_table the callers pass
GenerateWith(summaries, durations) ==
    \E day_table \in {None, "True", "False"} :
        Returns([summaries EXCEPT !.sections = Sections(day_table, durations),
                                  !.entries_table = EntriesTable(day_table)],
                durations)

\* generate_report with csv_prefix = None, called once on a built generator
\* (__main__.py lines 230-321).
GenerateReport ==
    /\ Built
    /\ ~report.done
    /\ GenerateWith(Summaries(SubprojectDurations(<<>>, entries)),
                    SubprojectDurations(<<>>, entries))
    /\ UNCHANGED <<entries, idx, occ_idx, total_duration, project_durations,
                   tag_durations, spontaneousity_durations, task_planned_measured,
                   task_occurrences, occurrences, plan_deviation_totals,
                   call, result>>

-----------------------------------------------------------------------------
(* Repetition: generate_report called again on the same generator, and a   *)
(* second ReportGenerator built from the entries of the first.             *)

\* generate_report called once more on a generator that has reported.
GenerateReportAgain ==
    /\ Built
    /\ report.done
    /\ report.raised = None
    /\ report.calls < MaxCalls
    /\ GenerateWith(Summaries(SubprojectDurations(<<>>, entries)),
                    SubprojectDurations(<<>>, entries))
    /\ UNCHANGED <<entries, idx, occ_idx, total_duration, project_durations,
                   tag_durations, spontaneousity_durations, task_planned_measured,
                   task_occurrences, occurrences, plan_deviation_totals,
                   call, result>>

\* The attributes of the generator, and what its last generate_report
\* returned.
Generator ==
    [ entries |-> entries, total_duration |-> total_duration,
      project_durations |-> project_durations, tag_durations |-> tag_durations,
      spontaneousity_durations |-> spontaneousity_durations,
      task_planned_measured |-> task_planned_measured,
      task_occurrences |-> task_occurrences, occurrences |-> occurrences,
      plan_deviation_totals |-> plan_deviation_totals,
      project_plan_diffs |-> project_plan_diffs,
      subproject_plan_diffs |-> subproject_plan_diffs,
      tag_plan_diffs |-> tag_plan_diffs, spont_plan_diffs |-> spont_plan_diffs,
      report |-> report ]

NewGeneratorShared ==
    [ total_duration |-> 0, project_durations |-> <<>>, tag_durations |-> <<>>,
      spontaneousity_durations |->
          << [k |-> "<dice>", v |-> 0], [k |-> "<cal>", v |-> 0] >>,
      task_planned_measured |-> <<>>, task_occurrences |-> <<>>,
      occurrences |-> occurrences,
      plan_deviation_totals |-> [over |-> 0, under |-> 0, abs |-> 0],
      project_plan_diffs |-> <<>>, subproject_plan_diffs |-> <<>>,
      tag_plan_diffs |-> <<>>, spont_plan_diffs |-> <<>> ]

\* The attributes __init__ creates before its loops (lines 26-36, 65-68):
\* every one a new object of the instance.
NewGenerator ==
    [ total_duration |-> 0, project_durations |-> <<>>, tag_durations |-> <<>>,
      spontaneousity_durations |->
          << [k |-> "<dice>", v |-> 0], [k |-> "<cal>", v |-> 0] >>,
      task_planned_measured |-> <<>>, task_occurrences |-> <<>>,
      occurrences |-> <<>>,
      plan_deviation_totals |-> [over |-> 0, under |-> 0, abs |-> 0],
      project_plan_diffs |-> <<>>, subproject_plan_diffs |-> <<>>,
      tag_plan_diffs |-> <<>>, spont_plan_diffs |-> <<>> ]

\* The orders in which the elements of a list can be passed.
Permuted(list) ==
    { [i \in DOMAIN list |-> list[f[i]]] :
        f \in { g \in [DOMAIN list -> DOMAIN list] :
                  \A i, j \in DOMAIN list : g[i] = g[j] => i = j } }

\* A second ReportGenerator is constructed from the TimeEntry objects of
\* the first, in the same or another order; the first generator is kept
\* (result) as it was left.
ConstructAgain ==
    /\ Built
    /\ call = NoCall
    /\ report.raised = None
    /\ call' = [fn |-> "ReportGenerator"]
    /\ result' = Returned(Generator)
    /\ entries' \in Permuted(entries)
    /\ idx' = 1
    /\ occ_idx' = 1
    /\ total_duration' = NewGenerator.total_duration
    /\ project_durations' = NewGenerator.project_durations
    /\ tag_durations' = NewGenerator.tag_durations
    /\ spontaneousity_durations' = NewGenerator.spontaneousity_durations
    /\ task_planned_measured' = NewGenerator.task_planned_measured
    /\ task_occurrences' = NewGenerator.task_occurrences
    /\ occurrences' = NewGenerator.occurrences
    /\ plan_deviation_totals' = NewGenerator.plan_deviation_totals
    /\ project_plan_diffs' = NewGenerator.project_plan_diffs
    /\ subproject_plan_diffs' = NewGenerator.subproject_plan_diffs
    /\ tag_plan_diffs' = NewGenerator.tag_plan_diffs
    /\ spont_plan_diffs' = NewGenerator.spont_plan_diffs
    /\ report' = NoReport

-----------------------------------------------------------------------------
(* The batches.                                                            *)

\* "A {p1:00}": neither marker, 3600 s planned
LabelPlain == <<"A", " ", "{", "p", "1", ":", "0", "0", "}">>

\* recurring and scheduled, 3600 s planned
LabelRecurring == <<"A", " ", "<rep>", "<cal>", " ", "{", "p", "1", ":", "0", "0", "}">>

\* spontaneous, no plan annotation
LabelNoPlan == <<"B", " ", "<dice>">>

\* spontaneous, 1800 s planned
LabelSpont == <<"C", " ", "<dice>", " ", "{", "p", "0", ":", "3", "0", "}">>

\* spontaneous and scheduled, 1800 s planned
LabelBoth == <<"C", " ", "<dice>", "<cal>", " ", "{", "p", "0", ":", "3", "0", "}">>

\* 2700 s planned
LabelTagged == <<"T", " ", "{", "p", "0", ":", "4", "5", "}">>

Day1Morning == <<"2023-01-01", "10:00:00Z">>

Day1Afternoon == <<"2023-01-01", "14:00:00Z">>

Day2Morning == <<"2023-01-02", "10:00:00Z">>

RawRecord(l, project, task, tags, s, d) ==
    [description |-> l, project_name |-> project, task_name |-> task,
     tag_names |-> tags, start |-> s, duration |-> d]

\* Raw records of the grouping specification.  A planned task under three
\* (project, sub-task) pairs on two days, and its recurring twin at three
\* start timestamps on two days, each with a duration under or over the
\* plan, without tags; and three spontaneity labels (one without a plan) in
\* one project, with two tags.
RawPool ==
    { RawRecord(LabelPlain, pt[1], pt[2], <<>>, s, d) :
        pt \in {<<"P1", "">>, <<"P1", "T1">>, <<"P2", "T1">>},
        s \in {Day1Morning, Day2Morning},
        d \in {1800, 5400} }
    \cup
    { RawRecord(LabelRecurring, pt[1], pt[2], <<>>, s, d) :
        pt \in {<<"P1", "">>, <<"P1", "T1">>, <<"P2", "T1">>},
        s \in {Day1Morning, Day1Afternoon, Day2Morning},
        d \in {1800, 5400} }
    \cup
    { RawRecord(l, "P2", "T1", <<"TagA", "TagB">>, Day1Morning, d) :
        l \in {LabelNoPlan, LabelSpont, LabelBoth},
        d \in {1800, 5400} }

\* Raw records of the tag specification: one task; the tags and the duration
\* vary (zero, odd seconds, and the 7500 s / 1500 s pair).
RawTagPool ==
    { RawRecord(LabelTagged, "P1", "", t, Day1Morning, d) :
        t \in {<<>>, <<"TagA">>, <<"TagB">>, <<"TagB", "TagA">>,
               <<"TagA", "TagB", "TagC">>},
        d \in {0, 1, 15, 1500, 7500} }

\* A start text that is no ISO timestamp.
NotATimestamp == <<"not-a-timestamp">>

\* Raw records of the start-timestamp specification: one recurring task
\* under two sub-tasks, with an empty, an unparseable and two well-formed
\* start texts.
RawStartPool ==
    { RawRecord(LabelRecurring, "P1", t, <<>>, s, d) :
        t \in {"", "T1"},
        s \in {<<>>, NotATimestamp, Day1Morning, Day2Morning},
        d \in {1800, 5400} }

\* Raw records of the report specification: a scheduled and a spontaneous
\* task in two projects with durations of zero, under a minute and an hour,
\* without tags; and a task of neither class with plain tags met in the
\* order TagB, TagA, or with a plain tag before two tags of custom_tag_order.
RawReportPool ==
    { RawRecord(l, project, "T1", <<>>, Day1Morning, d) :
        l \in {LabelRecurring, LabelSpont},
        project \in {"P1", "P2"},
        d \in {0, 30, 59, 3600} }
    \cup
    { RawRecord(LabelPlain, "P1", "T1", t, Day1Morning, d) :
        t \in { <<"TagB", "TagA">>,
                <<"TagA", "<turtle> & <candy>", "<alarm> & <candy>">> },
        d \in {0, 3600} }

\* Raw records of the repetition specification: a recurring task on two
\* days under and over its plan, a planned task in another project, a
\* spontaneous task with three tags, and an unplanned task of no duration.
RawRepeatPool ==
    { RawRecord(LabelRecurring, "P1", "T1", <<>>, Day1Morning, 1800),
      RawRecord(LabelRecurring, "P1", "T1", <<>>, Day1Morning, 5400),
      RawRecord(LabelRecurring, "P1", "T1", <<>>, Day2Morning, 5400),
      RawRecord(LabelPlain, "P2", "T1", <<>>, Day1Morning, 1800),
      RawRecord(LabelSpont, "P2", "T1", <<"TagB", "TagA", "TagC">>, Day1Morning, 7500),
      RawRecord(LabelNoPlan, "P1", "", <<"TagA">>, Day1Morning, 0) }

\* The attributes on entry to __init__'s loops (lines 22-36, 65-68), and no
\* report yet.
Constructed ==
    /\ idx = 1
    /\ occ_idx = 1
    /\ total_duration = 0
    /\ project_durations = <<>>
    /\ tag_durations = <<>>
    /\ spontaneousity_durations = << [k |-> "<dice>", v |-> 0], [k |-> "<cal>", v |-> 0] >>
    /\ task_planned_measured = <<>>
    /\ task_occurrences = <<>>
    /\ occurrences = <<>>
    /\ plan_deviation_totals = [over |-> 0, under |-> 0, abs |-> 0]
    /\ project_plan_diffs = <<>>
    /\ subproject_plan_diffs = <<>>
    /\ tag_plan_diffs = <<>>
    /\ spont_plan_diffs = <<>>
    /\ report = NoReport

\* The state on entry to __init__'s loops, for a batch of at most n records
\* of pool: TimeEntry objects carrying their 1-based index (__main__.py
\* builds each entry with idx = its position).
InitWith(pool, n) ==
    /\ \E k \in 0..n : \E raw \in [1..k -> pool] :
          entries = [i \in 1..k |-> TimeEntry(raw[i], i)]
    /\ Constructed
    /\ call = NoCall
    /\ result = NoResult

Init == InitWith(RawPool, MaxEntries)

InitTags == InitWith(RawTagPool, MaxTagEntries)

InitStarts == InitWith(RawStartPool, MaxStartEntries)

InitReport == InitWith(RawReportPool, MaxReportEntries)

InitRepeat == InitWith(RawRepeatPool, MaxRepeatEntries)

Next == ProcessEntry \/ BuildOccurrence \/ GenerateReport

Spec == Init /\ [][Next]_vars

SpecTags == InitTags /\ [][Next]_vars

SpecStarts == InitStarts /\ [][Next]_vars

SpecReport == InitReport /\ [][Next]_vars

NextRepeat ==
    \/ ProcessEntry
    \/ BuildOccurrence
    \/ GenerateReport
    \/ GenerateReportAgain
    \/ ConstructAgain

SpecRepeat == InitRepeat /\ [][NextRepeat]_vars

-----------------------------------------------------------------------------
(* The inputs of the parser specification (SpecParse).                     *)

RECURSIVE Concat(_)
Concat(texts) == IF texts = <<>> THEN <<>> ELSE Head(texts) \o Concat(Tail(texts))

\* Pieces of labels: the opening of an annotation with and without hours,
\* the colon, two-digit minutes over 59, the closing brace, a letter, and a
\* whole annotation of 2 h 05 min.
LabelTokens ==
    { <<"{", "p">>, <<"{", "p", "1">>, <<":">>, <<"7", "5">>, <<"}">>, <<"x">>,
      <<"{", "p", "2", ":", "0", "5", "}">> }

\* Pieces of duration texts.
DurationTokens ==
    { <<"P", "T">>, <<"1", "H">>, <<"3", "0", "M">>, <<"1", "5", "S">>, <<"2">>,
      <<"M">>, <<"x">> }

TextOneHour == <<"P", "T", "1", "H">>

TextInvalid == <<"i", "n", "v", "a", "l", "i", "d">>

\* Raw records of the API with optional fields missing, null or empty.
EntryDataPool ==
    { [ description  |-> d, task |-> t, timeInterval |-> ti ] :
        d \in {Absent, Present(PyNone), Present(PyStr(<<>>)), Present(PyStr(LabelSpont))},
        t \in {Absent,
               Present([is_none |-> TRUE, name |-> Absent]),
               Present([is_none |-> FALSE, name |-> Absent]),
               Present([is_none |-> FALSE, name |-> Present(PyStr(LabelRecurring))])},
        ti \in {Absent} \cup
               { Present([start |-> s, duration |-> u]) :
                   s \in {Absent, Present(PyNone), Present(PyStr(<<>>)),
                          Present(PyStr(Day1Morning)), Present(PyStr(NotATimestamp))},
                   u \in {Absent, Present(PyNone), Present(PyStr(TextOneHour)),
                          Present(PyStr(TextInvalid))} } }

\* The caller passes no names, or all three.
ArgsPool ==
    { [project_name |-> Absent, task_name |-> Absent, tag_names |-> Absent],
      [project_name |-> [present |-> TRUE, value |-> "P1"],
       task_name    |-> [present |-> TRUE, value |-> "T1"],
       tag_names    |-> [present |-> TRUE, value |-> <<"TagA">>]] }

InitParse ==
    /\ \/ \E k \in 0..MaxLabelTokens : \E ts \in [1..k -> LabelTokens] :
             call = [fn |-> "parse_planned_from_name", name |-> Concat(ts)]
       \/ \E k \in 0..MaxDurationTokens : \E ts \in [1..k -> DurationTokens] :
             call = [fn |-> "parse_clockify_duration", duration |-> PyStr(Concat(ts))]
       \/ call = [fn |-> "parse_clockify_duration", duration |-> PyNone]
       \/ \E entry_data \in EntryDataPool, args \in ArgsPool :
             call = [fn |-> "TimeEntry", entry_data |-> entry_data, index |-> 1,
                     args |-> args]
    /\ result = NoResult
    /\ entries = <<>>
    /\ Constructed

NextParse == CallParsePlanned \/ CallParseDuration \/ CallTimeEntry

SpecParse == InitParse /\ [][NextParse]_vars

-----------------------------------------------------------------------------
(* file_utils.write_markdown (lines 22-61).  A path holds nothing, a       *)
(* directory, or a file; a file has a text (a sequence of pieces) and may  *)
(* hold bytes that are not UTF-8.                                          *)

\* The variables of the report generator, which the functions below leave
\* alone.
generator ==
    <<entries, idx, occ_idx, total_duration, project_durations, tag_durations,
      spontaneousity_durations, task_planned_measured, task_occurrences,
      occurrences, plan_deviation_totals, project_plan_diffs,
      subproject_plan_diffs, tag_plan_diffs, spont_plan_diffs, report>>

NoFile == [kind |-> "absent", text |-> <<>>, utf8 |-> TRUE]

Directory == [kind |-> "dir", text |-> <<>>, utf8 |-> TRUE]

\* line 47: f"# Analysis of {start_date} to {end_date}\n\n"
Title == "# Analysis of start_date to end_date"

\* line 33
file_exists(file) == file.kind # "absent"

OpenModeAlwaysWrite(file, overwrite) == "w"

\* lines 34-42
OpenMode(file, overwrite) == IF file_exists(file) /\ ~overwrite THEN "a" ELSE "w"

\* line 45: open(md_path, mode); "w" creates or truncates the file
Opened(file, mode) ==
    IF mode = "w" THEN [kind |-> "file", text |-> <<>>, utf8 |-> TRUE]
    ELSE [file EXCEPT !.kind = "file"]

\* lines 46-48: the title when the file was opened for writing or is empty
\* (os.stat(md_path).st_size == 0), then the content
Written(file, mode, content) ==
    [file EXCEPT !.text =
        file.text
          \o (IF mode = "w" \/ (mode = "a" /\ Len(file.text) = 0)
              THEN <<Title>> ELSE <<>>)
          \o content]

\* write_markdown: open() raises for a directory and the call exits with
\* status 2 (lines 49-51); reading the file back raises when it holds
\* bytes that are not UTF-8 and the call exits with status 3 after the
\* write (lines 54-61).
write_markdown(file, content, overwrite) ==
    IF file.kind = "dir"
    THEN [done |-> TRUE, raised |-> "SystemExit(2)", value |-> file]
    ELSE LET mode  == OpenMode(file, overwrite)
             after == Written(Opened(file, mode), mode, content)
         IN  [done |-> TRUE,
              raised |-> IF after.utf8 THEN None ELSE "SystemExit(3)",
              value |-> after]

\* One run of the program with --md: write_markdown is called once
\* (__main__.py line 327).
WriteMarkdown ==
    /\ call.fn = "write_markdown"
    /\ ~result.done
    /\ result' = write_markdown(call.file, call.content, call.overwrite)
    /\ UNCHANGED <<generator, call>>

\* The next run finds the file as the last one left it.
RunAgain ==
    /\ call.fn = "write_markdown"
    /\ result.done
    /\ call.run < MaxRuns
    /\ \E content \in {<<>>, <<"a">>, <<"b">>}, overwrite \in BOOLEAN :
          call' = [fn |-> "write_markdown", file |-> result.value,
                   content |-> content, overwrite |-> overwrite,
                   run |-> call.run + 1]
    /\ result' = NoResult
    /\ UNCHANGED generator

InitMarkdown ==
    /\ \E file \in { NoFile, Directory,
                     [kind |-> "file", text |-> <<>>, utf8 |-> TRUE],
                     [kind |-> "file", text |-> <<"old">>, utf8 |-> TRUE],
                     [kind |-> "file", text |-> <<"old">>, utf8 |-> FALSE] },
          content \in {<<>>, <<"a">>, <<"b">>}, overwrite \in BOOLEAN :
          call = [fn |-> "write_markdown", file |-> file, content |-> content,
                  overwrite |-> overwrite, run |-> 1]
    /\ result = NoResult
    /\ entries = <<>>
    /\ Constructed

NextMarkdown == WriteMarkdown \/ RunAgain

SpecMarkdown == InitMarkdown /\ [][NextMarkdown]_vars

-----------------------------------------------------------------------------
(* client.ClockifyClient.api_get (lines 24-68).  The server is the         *)
(* environment: every request is answered by a JSON list of items, by      *)
(* JSON that is not a list, by a body that is not JSON, or fails.          *)

\* line 50
page_size == 50

\* A JSON value: a list of items, or an object / null.
JsonList(items) == [type |-> "list", items |-> items]

JsonOther(type) == [type |-> type, items |-> <<>>]

Nothing == JsonOther("nothing")

\* The items of the answer to the n-th request.
PageItems(n, len) == [i \in 1..len |-> <<n, i>>]

\* What requests.get / raise_for_status / resp.json() give for the n-th
\* request of a call (lines 41-43, 56-58).
Responses(n) ==
    { [kind |-> "json", data |-> JsonList(PageItems(n, len)), error |-> None] :
         len \in {0, 1, page_size - 1, page_size, page_size + 1} }
      \cup { [kind |-> "json", data |-> JsonOther(type), error |-> None] :
                type \in {"dict", "null"} }
      \cup { [kind |-> "failed", data |-> Nothing, error |-> error] :
                error \in {"ConnectionError", "HTTPError"} }
      \cup { [kind |-> "invalid", data |-> Nothing, error |-> "JSONDecodeError"] }

\* resp.json() on a body that is not JSON raises
\* requests.exceptions.JSONDecodeError, a RequestException, from requests
\* 2.27 on and a plain ValueError before; setup.py does not pin the version.
DecodeErrors == {"RequestException", "ValueError"}

\* lines 52-54: params.copy() if params else {}, then page and page-size
paged_params(params, page) ==
    ("page" :> page) @@ ("page-size" :> page_size) @@ params

ApiRaised(exception) == [done |-> TRUE, raised |-> exception, value |-> Nothing]

\* lines 39-45: paginate=False, one request with the caller's params
ApiGetOnce ==
    /\ call.fn = "api_get"
    /\ ~call.paginate
    /\ ~result.done
    /\ \E resp \in Responses(1) :
          /\ call' = [call EXCEPT !.sent = Append(@, call.params),
                                  !.received = Append(@, resp)]
          /\ \/ /\ resp.kind = "json"
                /\ result' = Returned(resp.data)
             \/ /\ resp.kind = "failed"
                /\ result' = ApiRaised("RequestException")
             \/ /\ resp.kind = "invalid"
                /\ \E exception \in DecodeErrors : result' = ApiRaised(exception)
    /\ UNCHANGED generator

\* lines 51-66: one iteration of the while True loop of paginate=True
RequestPage ==
    /\ call.fn = "api_get"
    /\ call.paginate
    /\ ~result.done
    /\ call.page <= MaxPages
    /\ \E resp \in Responses(Len(call.sent) + 1) :
          LET asked == [call EXCEPT
                           !.sent = Append(@, paged_params(call.params, call.page)),
                           !.received = Append(@, resp)]
          IN  \/ /\ resp.kind = "failed"
                 /\ call' = asked
                 /\ result' = ApiRaised("RequestException")
              \/ /\ resp.kind = "invalid"
                 /\ call' = asked
                 /\ \E exception \in DecodeErrors : result' = ApiRaised(exception)
              \/ /\ resp.kind = "json"
                 /\ resp.data.type # "list"
                 /\ call' = asked
                 /\ result' = Returned(resp.data)
              \/ /\ resp.kind = "json"
                 /\ resp.data.type = "list"
                 /\ LET all_results == call.all_results \o resp.data.items
                    IN  IF Len(resp.data.items) < page_size
                        THEN /\ call' = [asked EXCEPT !.all_results = all_results]
                             /\ result' = Returned(JsonList(all_results))
                        ELSE /\ call' = [asked EXCEPT !.all_results = all_results,
                                                      !.page = call.page + 1]
                             /\ result' = result
    /\ UNCHANGED generator

\* get_time_entries (lines 82-87) passes start and end; other callers pass
\* no params; a caller's own "page" is overwritten.
InitApi ==
    /\ \E paginate \in BOOLEAN,
          params \in { <<>>,
                       ("start" :> "2023-01-01T00:00:00Z") @@ ("end" :> "2023-01-31T23:59:59Z"),
                       ("page" :> 7) } :
          call = [fn |-> "api_get", paginate |-> paginate, params |-> params,
                  page |-> 1, all_results |-> <<>>, sent |-> <<>>,
                  received |-> <<>>]
    /\ result = NoResult
    /\ entries = <<>>
    /\ Constructed

NextApi == ApiGetOnce \/ RequestPage

SpecApi == InitApi /\ [][NextApi]_vars

-----------------------------------------------------------------------------
(* __main__.date_interface, month mode with breakdown (lines 259-283),     *)
(* and date_utils.get_week_range / get_month_range.  A date is its         *)
(* proleptic Gregorian ordinal (date.toordinal()): 1 is 0001-01-01, a      *)
(* Monday.                                                                 *)

\* datetime.MINYEAR, datetime.MAXYEAR
MinYear == 1

MaxYear == 9999

\* The ordinary years the months are drawn from: 28 years from 2000 on, so
\* that a month of every length begins on every day of the week.
FirstPoolYear == 2000

IsLeap(year) == year % 4 = 0 /\ (year % 100 # 0 \/ year % 400 = 0)

\* calendar.monthrange(year, month)[1]
DaysInMonth(year, month) ==
    IF month = 2 THEN (IF IsLeap(year) THEN 29 ELSE 28)
    ELSE IF month \in {4, 6, 9, 11} THEN 30 ELSE 31

DaysBeforeYear(year) ==
    LET y == year - 1 IN y * 365 + (y \div 4) - (y \div 100) + (y \div 400)

RECURSIVE DaysBeforeMonth(_, _)
DaysBeforeMonth(year, month) ==
    IF month = 1 THEN 0
    ELSE DaysBeforeMonth(year, month - 1) + DaysInMonth(year, month - 1)

\* date(year, month, day)
Date(year, month, day) == DaysBeforeYear(year) + DaysBeforeMonth(year, month) + day

\* date.min, date.max
MinDate == Date(MinYear, 1, 1)

MaxDate == Date(MaxYear, 12, 31)

\* date + timedelta raises OverflowError outside date.min .. date.max
Representable(date) == MinDate <= date /\ date <= MaxDate

\* date.weekday(): Monday is 0
weekday(date) == (date + 6) % 7

\* get_month_range (lines 43-45)
get_month_range(year, month) ==
    [start |-> Date(year, month, 1), end |-> Date(year, month, DaysInMonth(year, month))]

\* get_week_range (lines 28-31)
get_week_range(target_date, week_start) ==
    LET wd    == (weekday(target_date) - week_start) % 7
        start == target_date - wd
        end   == start + 6
    IN  [raised |-> IF Representable(start) /\ Representable(end)
                    THEN None ELSE "OverflowError",
         start |-> start, end |-> end]

Max(a, b) == IF a >= b THEN a ELSE b

Min(a, b) == IF a <= b THEN a ELSE b

\* The start of an entry whose text datetime.fromisoformat rejects.
Unparseable == 0

RECURSIVE week_entries(_, _, _)
\* line 276: the entries whose start date lies in wstart .. wend, in order
week_entries(starts, wstart, wend) ==
    IF starts = <<>> THEN <<>>
    ELSE LET rest == week_entries(Tail(starts), wstart, wend)
         IN  IF wstart <= Head(starts) /\ Head(starts) <= wend
             THEN <<Head(starts)>> \o rest ELSE rest

RECURSIVE SubReports(_, _)
\* lines 275-283: one sub-report per range that has entries
SubReports(week_ranges, starts) ==
    IF week_ranges = <<>> THEN <<>>
    ELSE LET range == Head(week_ranges)
             found == week_entries(starts, range[1], range[2])
             rest  == SubReports(Tail(week_ranges), starts)
         IN  IF found = <<>> THEN rest
             ELSE <<[wstart |-> range[1], wend |-> range[2], entries |-> found]>> \o rest

MonthRaised(exception) == [done |-> TRUE, raised |-> exception, value |-> <<>>]

\* lines 262-268
WeekBounds ==
    /\ call.fn = "month_breakdown"
    /\ call.pc = "bounds"
    /\ ~result.done
    /\ LET first == get_week_range(call.first_of_month, call.week_start)
           last  == get_week_range(call.last_of_month, call.week_start)
       IN  IF first.raised # None \/ last.raised # None
           THEN /\ result' = MonthRaised("OverflowError")
                /\ call' = call
           ELSE /\ call' = [call EXCEPT !.first_week_start = first.start,
                                        !.last_week_end = last.end,
                                        !.d = first.start,
                                        !.pc = "loop"]
                /\ result' = result
    /\ UNCHANGED generator

\* lines 269-273: one iteration of while d <= last_week_end
AppendWeek ==
    /\ call.fn = "month_breakdown"
    /\ call.pc = "loop"
    /\ ~result.done
    /\ call.d <= call.last_week_end
    /\ LET wstart == call.d
           wend   == call.d + 6
       IN  IF ~Representable(wend)
           THEN /\ result' = MonthRaised("OverflowError")
                /\ call' = call
           ELSE LET appended ==
                       Append(call.week_ranges,
                              <<Max(wstart, call.first_of_month),
                                Min(wend, call.last_of_month)>>)
                IN  IF ~Representable(call.d + 7)
                    THEN /\ result' = MonthRaised("OverflowError")
                         /\ call' = [call EXCEPT !.week_ranges = appended]
                    ELSE /\ call' = [call EXCEPT !.week_ranges = appended,
                                                 !.d = call.d + 7]
                         /\ result' = result
    /\ UNCHANGED generator

\* lines 275-283: the loop has ended; the first comprehension parses the
\* start of every entry
WeekReports ==
    /\ call.fn = "month_breakdown"
    /\ call.pc = "loop"
    /\ ~result.done
    /\ ~(call.d <= call.last_week_end)
    /\ result' =
          IF call.week_ranges # <<>>
                /\ \E i \in 1..Len(call.starts) : call.starts[i] = Unparseable
          THEN MonthRaised("ValueError")
          ELSE Returned(SubReports(call.week_ranges, call.starts))
    /\ UNCHANGED <<generator, call>>

\* The start dates of the entries of a month: one entry on every day, two
\* on the first and the last day, none, or one whose start is not a date.
StartsOf(month, pattern) ==
    CASE pattern = "daily" ->
            [i \in 1..(month.end - month.start + 1) |-> month.start + i - 1]
      [] pattern = "ends" -> <<month.end, month.start, month.end>>
      [] pattern = "none" -> <<>>
      [] OTHER -> <<month.start, Unparseable>>

\* lines 134-136 and 77: the month of --start, --weekstart in 0..6
InitMonth ==
    /\ \E year \in {MinYear, MaxYear} \cup (FirstPoolYear..(FirstPoolYear + PoolYears - 1)),
          month \in 1..12, week_start \in 0..6,
          pattern \in {"daily", "ends", "none", "text"} :
          LET range == get_month_range(year, month)
          IN  call = [fn |-> "month_breakdown", pc |-> "bounds",
                      week_start |-> week_start,
                      first_of_month |-> range.start,
                      last_of_month |-> range.end,
                      starts |-> StartsOf(range, pattern),
                      first_week_start |-> 0, last_week_end |-> 0, d |-> 0,
                      week_ranges |-> <<>>]
    /\ result = NoResult
    /\ entries = <<>>
    /\ Constructed

NextMonth == WeekBounds \/ AppendWeek \/ WeekReports

SpecMonth == InitMonth /\ [][NextMonth]_vars

-----------------------------------------------------------------------------
(* Vocabulary of the properties.                                           *)

\* The sum of f over the finite set S, f a function on S.
RECURSIVE SumFn(_, _)
SumFn(f, S) ==
    IF S = {} THEN 0
    ELSE LET x == CHOOSE y \in S : TRUE
         IN  f[x] + SumFn(f, S \ {x})

\* The entry loop has finished.
Grouped == idx > Len(entries)

\* This step is one iteration of the occurrence loop; Cur is the group it
\* processes and First that group's first member entry.
OccStep == Grouped /\ occ_idx <= Len(task_occurrences) /\ occ_idx' = occ_idx + 1

Cur == task_occurrences[occ_idx].v

CurKey == task_occurrences[occ_idx].k

First == Cur.entries[1]

SumMore(d) == SumSeq([i \in DOMAIN d |-> d[i].v.more_plan])

SumLess(d) == SumSeq([i \in DOMAIN d |-> d[i].v.less_plan])

\* The identity of an entry and the positions of the batch that share it.
IdentityOf(e) == <<e.description, e.project_name, e.task_name>>

SameIdentity(i) == {j \in DOMAIN entries : IdentityOf(entries[j]) = IdentityOf(entries[i])}

DateOf(e) == IF e.start = <<>> THEN None ELSE e.start[1]

-----------------------------------------------------------------------------
(* C1.  Entries are grouped by (description, project_name, task_name), and *)
(* by start date as well only when recurring: once __init__ has returned,  *)
(* the occurrences of a recurring identity are as many as the distinct     *)
(* start dates of its entries, and a non-recurring identity has exactly    *)
(* one occurrence however many dates its entries span.                     *)
C1Theorem ==
    Built =>
      \A i \in DOMAIN entries :
        LET occs  == {n \in DOMAIN occurrences :
                        <<occurrences[n].description, occurrences[n].project,
                          occurrences[n].task_name>> = IdentityOf(entries[i])}
            dates == {DateOf(entries[j]) : j \in SameIdentity(i)}
        IN  Cardinality(occs) =
              IF entries[i].is_recurring THEN Cardinality(dates) ELSE 1

\* Two recurring entries of one identity on two dates: two occurrences.
C1Witness ==
    /\ Built
    /\ Len(entries) = 2
    /\ entries[1].is_recurring
    /\ IdentityOf(entries[1]) = IdentityOf(entries[2])
    /\ DateOf(entries[1]) # DateOf(entries[2])
    /\ Len(occurrences) = 2

-----------------------------------------------------------------------------
(* The occurrences as the claims define them, from the batch alone: the    *)
(* classes of the entries under identity plus, for recurring entries, date.*)

GroupOf(e) == <<IdentityOf(e), IF e.is_recurring THEN DateOf(e) ELSE None>>

Groups == {GroupOf(entries[i]) : i \in DOMAIN entries}

Members(g) == {i \in DOMAIN entries : GroupOf(entries[i]) = g}

GroupPlanned(g) == SumFn([i \in Members(g) |-> entries[i].planned_sec], Members(g))

GroupMeasured(g) == SumFn([i \in Members(g) |-> entries[i].duration_sec], Members(g))

PlannedGroups == {g \in Groups : GroupPlanned(g) > 0}

GroupOver(g) ==
    IF GroupMeasured(g) > GroupPlanned(g) THEN GroupMeasured(g) - GroupPlanned(g) ELSE 0

GroupUnder(g) ==
    IF GroupMeasured(g) < GroupPlanned(g) THEN GroupPlanned(g) - GroupMeasured(g) ELSE 0

\* Two entries of one identity on two days, one as far over its plan as the
\* other is under it.
MirrorPair ==
    /\ Len(entries) = 2
    /\ IdentityOf(entries[1]) = IdentityOf(entries[2])
    /\ DateOf(entries[1]) # DateOf(entries[2])
    /\ entries[1].planned_sec > 0
    /\ entries[1].duration_sec > entries[1].planned_sec
    /\ entries[1].duration_sec - entries[1].planned_sec
         = entries[2].planned_sec - entries[2].duration_sec

(* C2.  plan_deviation_totals is computed per occurrence: over is the sum  *)
(* of the positive (measured - planned) of the occurrences with planned >  *)
(* 0, under the sum of the absolute negative ones, abs = over + under.  An *)
(* overrun and an equal underrun of one non-recurring task on two days     *)
(* cancel to 0/0/0; of a recurring task they count separately (1800, 1800, *)
(* 3600 for a 3600 s plan met with 5400 s and 1800 s).                     *)
C2Theorem ==
    Built =>
      /\ plan_deviation_totals.over
            = SumFn([g \in PlannedGroups |-> GroupOver(g)], PlannedGroups)
      /\ plan_deviation_totals.under
            = SumFn([g \in PlannedGroups |-> GroupUnder(g)], PlannedGroups)
      /\ plan_deviation_totals.abs
            = plan_deviation_totals.over + plan_deviation_totals.under
      /\ MirrorPair =>
            LET x == entries[1].duration_sec - entries[1].planned_sec
            IN  IF entries[1].is_recurring
                THEN plan_deviation_totals = [over |-> x, under |-> x, abs |-> 2 * x]
                ELSE plan_deviation_totals = [over |-> 0, under |-> 0, abs |-> 0]

\* The recurring pair of the scenario: 5400 s and 1800 s against 3600 s each.
C2Witness ==
    /\ Built
    /\ MirrorPair
    /\ entries[1].is_recurring
    /\ plan_deviation_totals = [over |-> 1800, under |-> 1800, abs |-> 3600]

-----------------------------------------------------------------------------
DeviationState ==
    <<plan_deviation_totals, project_plan_diffs, subproject_plan_diffs,
      tag_plan_diffs, spont_plan_diffs>>

(* C3.  An occurrence whose planned seconds sum to 0 adds nothing to       *)
(* plan_deviation_totals nor to any project, sub-task, tag or spontaneity  *)
(* deviation bucket, whatever it measured: the step of the occurrence loop *)
(* that processes it leaves all five unchanged.                            *)
C3Theorem ==
    [][ (OccStep /\ Cur.planned = 0) => DeviationState' = DeviationState ]_vars

\* An occurrence without a plan and with measured time has been processed,
\* next to one that did deviate.
C3Witness ==
    /\ Built
    /\ \E n \in DOMAIN occurrences :
          occurrences[n].planned = 0 /\ occurrences[n].measured > 0
    /\ plan_deviation_totals.abs > 0

-----------------------------------------------------------------------------
(* Vocabulary of the allocation properties: what one step of the           *)
(* occurrence loop adds to the buckets of a dimension.                     *)

AddedMore(d, dNext, key) == MoreOf(dNext, key) - MoreOf(d, key)

AddedLess(d, dNext, key) == LessOf(dNext, key) - LessOf(d, key)

\* The signed deviation read back from one dimension's buckets.
Signed(d, dNext) == (SumMore(dNext) - SumMore(d)) - (SumLess(dNext) - SumLess(d))

CurDiff == Cur.measured - Cur.planned

\* The tags of the member entries es, in the order the entries list them.
RECURSIVE FlatTags(_)
FlatTags(es) == IF es = <<>> THEN <<>> ELSE Head(es).tag_names \o FlatTags(Tail(es))

TagsOf(es) == {FlatTags(es)[i] : i \in DOMAIN FlatTags(es)}

FirstSeen(es, t) ==
    CHOOSE i \in DOMAIN FlatTags(es) :
        FlatTags(es)[i] = t /\ \A j \in 1..(i - 1) : FlatTags(es)[j] # t

\* The tag that comes last in iteration order: the one first met latest.
LastTagOf(es) ==
    CHOOSE t \in TagsOf(es) : \A u \in TagsOf(es) : FirstSeen(es, u) <= FirstSeen(es, t)

Carrying(es, t) ==
    {j \in DOMAIN es : \E n \in DOMAIN es[j].tag_names : es[j].tag_names[n] = t}

\* The measured seconds of the member entries that carry tag t.
CarriedSeconds(es, t) == SumFn([j \in Carrying(es, t) |-> es[j].duration_sec], Carrying(es, t))

\* a is an integer nearest to n / d (d > 0).
Nearest(a, n, d) == 2 * Abs(a * d - n) <= d

AddedToTag(t) ==
    AddedMore(tag_plan_diffs, tag_plan_diffs', t) + AddedLess(tag_plan_diffs, tag_plan_diffs', t)

AllTagKeys == DictKeys(tag_plan_diffs) \cup DictKeys(tag_plan_diffs')

-----------------------------------------------------------------------------
NonNegative(d) == \A i \in DOMAIN d : d[i].v.more_plan >= 0 /\ d[i].v.less_plan >= 0

(* C4.  Every more_plan and less_plan value of the project, sub-task, tag  *)
(* and spontaneity deviation maps is a non-negative integer, for every     *)
(* batch, multi-tagged entries included.                                   *)
C4NonNegative ==
    /\ NonNegative(project_plan_diffs)
    /\ NonNegative(subproject_plan_diffs)
    /\ NonNegative(tag_plan_diffs)
    /\ NonNegative(spont_plan_diffs)

-----------------------------------------------------------------------------
(* C5, as claimed.  For every occurrence with planned > 0 the signed       *)
(* deviation read back from any single dimension (project, sub-task, tag,  *)
(* spontaneity) equals measured minus planned.                             *)
C5Original ==
    [][ (OccStep /\ Cur.planned > 0) =>
          /\ Signed(project_plan_diffs, project_plan_diffs') = CurDiff
          /\ Signed(subproject_plan_diffs, subproject_plan_diffs') = CurDiff
          /\ Signed(tag_plan_diffs, tag_plan_diffs') = CurDiff
          /\ Signed(spont_plan_diffs, spont_plan_diffs') = CurDiff ]_vars

(* C5, amended.  For every occurrence with planned > 0 the signed          *)
(* deviation read back from the project dimension and from the sub-task    *)
(* dimension equals measured minus planned; from the tag dimension it does *)
(* when a member entry carries a tag, and from the spontaneity dimension   *)
(* when the first member entry is spontaneous or scheduled; otherwise the  *)
(* occurrence adds nothing to that dimension.                              *)
C5Theorem ==
    [][ (OccStep /\ Cur.planned > 0) =>
          /\ Signed(project_plan_diffs, project_plan_diffs') = CurDiff
          /\ Signed(subproject_plan_diffs, subproject_plan_diffs') = CurDiff
          /\ Signed(tag_plan_diffs, tag_plan_diffs')
                = IF TagsOf(Cur.entries) # {} THEN CurDiff ELSE 0
          /\ Signed(spont_plan_diffs, spont_plan_diffs')
                = IF First.is_spontaneous \/ First.is_scheduled THEN CurDiff ELSE 0 ]_vars

\* A tagged, spontaneous, planned occurrence that deviated has been
\* allocated: all four dimensions read back its deviation.
C5Witness ==
    /\ Built
    /\ Len(occurrences) = 1
    /\ occurrences[1].planned > 0
    /\ occurrences[1].diff # 0
    /\ occurrences[1].diff = occurrences[1].measured - occurrences[1].planned
    /\ SumMore(project_plan_diffs) - SumLess(project_plan_diffs) = occurrences[1].diff
    /\ SumMore(subproject_plan_diffs) - SumLess(subproject_plan_diffs) = occurrences[1].diff
    /\ SumMore(tag_plan_diffs) - SumLess(tag_plan_diffs) = occurrences[1].diff
    /\ SumMore(spont_plan_diffs) - SumLess(spont_plan_diffs) = occurrences[1].diff

-----------------------------------------------------------------------------
(* C6.  For an occurrence with planned > 0, a non-zero deviation and at    *)
(* least one tag, the amounts added to the tag buckets sum exactly to      *)
(* abs(diff), on the side of the deviation's sign and on the occurrence's  *)
(* own tags only: the last tag in iteration order gets abs(diff) minus     *)
(* what the others got.                                                    *)
C6Theorem ==
    [][ (OccStep /\ Cur.planned > 0 /\ CurDiff # 0 /\ TagsOf(Cur.entries) # {}) =>
          LET tags == TagsOf(Cur.entries)
              last == LastTagOf(Cur.entries)
              rest == tags \ {last}
          IN  /\ SumFn([t \in tags |-> AddedToTag(t)], tags) = Abs(CurDiff)
              /\ AddedToTag(last)
                    = Abs(CurDiff) - SumFn([t \in rest |-> AddedToTag(t)], rest)
              /\ \A t \in AllTagKeys \ tags : AddedToTag(t) = 0
              /\ \A t \in tags :
                    IF CurDiff > 0
                    THEN AddedLess(tag_plan_diffs, tag_plan_diffs', t) = 0
                    ELSE AddedMore(tag_plan_diffs, tag_plan_diffs', t) = 0 ]_vars

\* An occurrence with three distinct tags and a rounded share has been
\* allocated, and the tag buckets hold its whole deviation.
C6Witness ==
    /\ Built
    /\ Len(occurrences) = 1
    /\ occurrences[1].diff # 0
    /\ Cardinality(TagsOf(occurrences[1].entries)) = 3
    /\ \E i \in DOMAIN tag_plan_diffs :
          tag_plan_diffs[i].v.less_plan + tag_plan_diffs[i].v.more_plan
             \notin {0, Abs(occurrences[1].diff)}
    /\ SumMore(tag_plan_diffs) + SumLess(tag_plan_diffs) = Abs(occurrences[1].diff)

-----------------------------------------------------------------------------
C7Sums ==
    /\ SumMore(project_plan_diffs) = plan_deviation_totals.over
    /\ SumLess(project_plan_diffs) = plan_deviation_totals.under
    /\ SumMore(subproject_plan_diffs) = plan_deviation_totals.over
    /\ SumLess(subproject_plan_diffs) = plan_deviation_totals.under

\* Of the buckets of d, the step credits only key, by the whole deviation.
WholeTo(d, dNext, key) ==
    \A q \in DictKeys(d) \cup DictKeys(dNext) \cup {key} :
        /\ AddedMore(d, dNext, q) = IF q = key /\ CurDiff > 0 THEN CurDiff ELSE 0
        /\ AddedLess(d, dNext, q) = IF q = key /\ CurDiff < 0 THEN -CurDiff ELSE 0

C7Step ==
    (OccStep /\ Cur.planned > 0) =>
        /\ WholeTo(project_plan_diffs, project_plan_diffs', CurKey[1][2])
        /\ WholeTo(subproject_plan_diffs, subproject_plan_diffs',
                   <<CurKey[1][3], CurKey[1][2]>>)

(* C7.  Each occurrence with planned > 0 credits its whole abs(diff) to    *)
(* the one project bucket of its project_name and to the one sub-task      *)
(* bucket of (task_name, project_name); so at all times the more_plan      *)
(* values of the project buckets sum to plan_deviation_totals over and the *)
(* less_plan values to under, and likewise for the sub-task buckets.       *)
C7Theorem == []C7Sums /\ [][C7Step]_vars

\* Two occurrences in two projects, one over and one under its plan.
C7Witness ==
    /\ Built
    /\ Cardinality(DictKeys(project_plan_diffs)) = 2
    /\ Cardinality(DictKeys(subproject_plan_diffs)) = 2
    /\ plan_deviation_totals.over > 0
    /\ plan_deviation_totals.under > 0
    /\ C7Sums

-----------------------------------------------------------------------------
\* The batch of the scenario: 7500 s under TagA, 1500 s under TagB, against
\* two plans of 2700 s.
Scenario7500 ==
    /\ Len(entries) = 2
    /\ entries[1].tag_names = <<"TagA">> /\ entries[1].duration_sec = 7500
    /\ entries[2].tag_names = <<"TagB">> /\ entries[2].duration_sec = 1500

(* C8.  For an occurrence with planned > 0, positive measured duration, a  *)
(* non-zero deviation and tags, every tag but the last in iteration order  *)
(* receives abs(diff) * w rounded to a nearest integer, w being the        *)
(* measured seconds of the member entries that carry the tag over the      *)
(* measured seconds of all member entries; 7500 s under tag A and 1500 s   *)
(* under tag B with a deviation of +3600 s give A 3000 s and B 600 s of    *)
(* more_plan.                                                              *)
C8Theorem ==
    [][ (OccStep /\ Cur.planned > 0 /\ Cur.measured > 0 /\ CurDiff # 0
           /\ TagsOf(Cur.entries) # {}) =>
          /\ \A t \in TagsOf(Cur.entries) \ {LastTagOf(Cur.entries)} :
                Nearest(AddedToTag(t),
                        Abs(CurDiff) * CarriedSeconds(Cur.entries, t),
                        Cur.measured)
          /\ Scenario7500 =>
                /\ CurDiff = 3600
                /\ AddedMore(tag_plan_diffs, tag_plan_diffs', "TagA") = 3000
                /\ AddedMore(tag_plan_diffs, tag_plan_diffs', "TagB") = 600 ]_vars

\* The scenario has been allocated.
C8Witness ==
    /\ Built
    /\ Scenario7500
    /\ MoreOf(tag_plan_diffs, "TagA") = 3000
    /\ MoreOf(tag_plan_diffs, "TagB") = 600

-----------------------------------------------------------------------------
(* C9.  When every member entry of an occurrence with planned > 0 has zero *)
(* duration and N distinct tags are present, every tag but the last        *)
(* receives abs(diff) / N rounded to a nearest integer in its less_plan    *)
(* bucket and the last the remainder; with two tags each gets half.        *)
C9Theorem ==
    [][ (OccStep /\ Cur.planned > 0 /\ TagsOf(Cur.entries) # {}
           /\ \A j \in DOMAIN Cur.entries : Cur.entries[j].duration_sec = 0) =>
          LET tags == TagsOf(Cur.entries)
              last == LastTagOf(Cur.entries)
              rest == tags \ {last}
              N    == Cardinality(tags)
              Got(t) == AddedLess(tag_plan_diffs, tag_plan_diffs', t)
          IN  /\ \A t \in tags : AddedMore(tag_plan_diffs, tag_plan_diffs', t) = 0
              /\ \A t \in rest : Nearest(Got(t), Cur.planned, N)
              /\ Got(last) = Cur.planned - SumFn([t \in rest |-> Got(t)], rest)
              /\ N = 2 => \A t \in tags : 2 * Got(t) = Cur.planned ]_vars

\* Two zero-duration entries with one tag each: the 5400 s under plan are
\* split 2700 / 2700.
C9Witness ==
    /\ Built
    /\ Len(entries) = 2
    /\ \A j \in DOMAIN entries : entries[j].duration_sec = 0
    /\ DictKeys(tag_plan_diffs) = {"TagA", "TagB"}
    /\ LessOf(tag_plan_diffs, "TagA") = 2700
    /\ LessOf(tag_plan_diffs, "TagB") = 2700

-----------------------------------------------------------------------------
\* The class the claim credits: that of the first member entry.
ClassOfFirst ==
    IF First.is_spontaneous THEN "<dice>"
    ELSE IF First.is_scheduled THEN "<cal>"
    ELSE "neither"

(* C10.  In the spontaneity dimension the whole deviation of an occurrence *)
(* with planned > 0 goes to the class of its first member entry:           *)
(* spontaneous if that entry is spontaneous (scheduled or not), else       *)
(* scheduled if it is scheduled, and to no bucket if it is neither.        *)
C10Theorem ==
    [][ (OccStep /\ Cur.planned > 0) =>
          /\ DictKeys(spont_plan_diffs') \subseteq {"<dice>", "<cal>"}
          /\ \A c \in {"<dice>", "<cal>"} :
                /\ AddedMore(spont_plan_diffs, spont_plan_diffs', c)
                      = IF c = ClassOfFirst /\ CurDiff > 0 THEN CurDiff ELSE 0
                /\ AddedLess(spont_plan_diffs, spont_plan_diffs', c)
                      = IF c = ClassOfFirst /\ CurDiff < 0 THEN -CurDiff ELSE 0 ]_vars

\* An occurrence whose first entry is spontaneous and scheduled has been
\* credited to the spontaneous class alone.
C10Witness ==
    /\ Built
    /\ Len(occurrences) = 1
    /\ occurrences[1].entries[1].is_spontaneous
    /\ occurrences[1].entries[1].is_scheduled
    /\ occurrences[1].diff > 0
    /\ DictKeys(spont_plan_diffs) = {"<dice>"}
    /\ MoreOf(spont_plan_diffs, "<dice>") = occurrences[1].diff

-----------------------------------------------------------------------------
\* The recurring entries of the batch that share entry i's identity and
\* whose start text is empty or no timestamp.
Undated(i) ==
    {j \in SameIdentity(i) :
        entries[j].is_recurring /\ ~IsIsoFormat(entries[j].start)}

\* The occurrences of entry i's identity that carry no date.
UndatedOccurrences(i) ==
    {n \in DOMAIN occurrences :
        /\ <<occurrences[n].description, occurrences[n].project,
             occurrences[n].task_name>> = IdentityOf(entries[i])
        /\ occurrences[n].date = None}

(* C11.  Recurring entries whose start text is empty or unparseable get    *)
(* the occurrence date None, and those of one identity form exactly one    *)
(* occurrence, whose members are these entries in batch order and whose    *)
(* planned and measured are the sums over them; every entry of the batch   *)
(* is a member of exactly one occurrence.                                  *)
C11Theorem ==
    Built =>
      /\ \A i \in DOMAIN entries :
            Undated(i) # {} =>
              /\ \A j \in Undated(i) : OccurrenceDate(entries[j]) = None
              /\ Cardinality(UndatedOccurrences(i)) = 1
              /\ \A n \in UndatedOccurrences(i) :
                    /\ {occurrences[n].entries[m].index :
                           m \in DOMAIN occurrences[n].entries} = Undated(i)
                    /\ Len(occurrences[n].entries) = Cardinality(Undated(i))
                    /\ occurrences[n].planned
                          = SumFn([j \in Undated(i) |-> entries[j].planned_sec], Undated(i))
                    /\ occurrences[n].measured
                          = SumFn([j \in Undated(i) |-> entries[j].duration_sec], Undated(i))
      /\ SumSeq([n \in DOMAIN occurrences |-> Len(occurrences[n].entries)]) = Len(entries)

\* An entry with an empty start and one with an unparseable start, of one
\* recurring identity, have been grouped: one occurrence, dated None, with
\* the sums of both.
C11Witness ==
    /\ Built
    /\ Len(entries) = 2
    /\ entries[1].start = <<>>
    /\ entries[2].start = NotATimestamp
    /\ entries[1].is_recurring
    /\ IdentityOf(entries[1]) = IdentityOf(entries[2])
    /\ Len(occurrences) = 1
    /\ occurrences[1].date = None
    /\ occurrences[1].planned = 7200
    /\ occurrences[1].measured = entries[1].duration_sec + entries[2].duration_sec

-----------------------------------------------------------------------------
\* The entries the entry loop has processed.
Processed == {i \in DOMAIN entries : i < idx}

DurationOf(S) == SumFn([i \in S |-> entries[i].duration_sec], S)

SumValues(d) == SumSeq([i \in DOMAIN d |-> d[i].v])

(* C12.  The project totals sum to total_duration, and so do the sub-task  *)
(* totals of the sub-task table; each total is the sum of duration_sec     *)
(* over the entries of that project (that sub-task and project), whether   *)
(* or not the entries are recurring and however they were split into       *)
(* occurrences.                                                            *)
C12Theorem ==
    /\ total_duration = DurationOf(Processed)
    /\ SumValues(project_durations) = total_duration
    /\ DictKeys(project_durations) = {entries[i].project_name : i \in Processed}
    /\ \A q \in DictKeys(project_durations) :
          DictAt(project_durations, q)
             = DurationOf({i \in Processed : entries[i].project_name = q})
    /\ (report.done /\ report.raised = None) =>
          /\ SumValues(report.subproject_durations) = total_duration
          /\ DictKeys(report.subproject_durations)
                = {<<entries[i].task_name, entries[i].project_name>> : i \in DOMAIN entries}
          /\ \A q \in DictKeys(report.subproject_durations) :
                DictAt(report.subproject_durations, q)
                   = DurationOf({i \in DOMAIN entries :
                                   <<entries[i].task_name, entries[i].project_name>> = q})

\* Two recurring entries of one identity on two dates: two occurrences, one
\* project total and one sub-task total holding both durations.
C12Witness ==
    /\ report.done
    /\ Len(entries) = 2
    /\ entries[1].is_recurring
    /\ Len(occurrences) = 2
    /\ Len(project_durations) = 1
    /\ Len(report.subproject_durations) = 1
    /\ report.subproject_durations[1].v = entries[1].duration_sec + entries[2].duration_sec
    /\ project_durations[1].v = total_duration
    /\ total_duration > 0

-----------------------------------------------------------------------------
NoTags(es) == \A i \in DOMAIN es : es[i].tag_names = <<>>

C13State ==
    /\ (Grouped /\ NoTags(entries)) => tag_durations = <<>> /\ tag_plan_diffs = <<>>
    /\ (report.done /\ report.raised = None /\ NoTags(entries)) =>
          /\ report.tag_table = <<>>
          /\ \A i \in DOMAIN report.sections : report.sections[i] # "tag"

C13Step ==
    (OccStep /\ NoTags(Cur.entries)) =>
        /\ tag_plan_diffs' = tag_plan_diffs
        /\ Cur.planned > 0 =>
              /\ plan_deviation_totals'.abs = plan_deviation_totals.abs + Abs(CurDiff)
              /\ plan_deviation_totals'.over - plan_deviation_totals'.under
                    = plan_deviation_totals.over - plan_deviation_totals.under + CurDiff

(* C13.  An occurrence none of whose member entries carries a tag adds     *)
(* nothing to any tag deviation bucket while its deviation is still added  *)
(* to plan_deviation_totals; a batch without tags has an empty             *)
(* tag_durations map and its report has no tag table.                      *)
C13Theorem == []C13State /\ [][C13Step]_vars

\* An untagged batch that deviated from its plan has been reported.
C13Witness ==
    /\ report.done
    /\ entries # <<>>
    /\ NoTags(entries)
    /\ plan_deviation_totals.abs > 0
    /\ tag_durations = <<>>
    /\ tag_plan_diffs = <<>>
    /\ report.tag_table = <<>>
    /\ report.proj_table # <<>>

-----------------------------------------------------------------------------
\* A field of a raw record is missing: the key is absent, or its value is
\* null or the empty text.
Missing(field) == ~Truthy(GetField(field))

\* The records the claim speaks of: the interval is there and no value has
\* a wrong type; optional fields may be missing.
OptionalFieldsOnly(entry_data) ==
    /\ entry_data.timeInterval.present
    /\ entry_data.task.present => ~entry_data.task.value.is_none

(* C14.  Constructing a TimeEntry never raises for a raw record with a     *)
(* missing optional field: a missing description falls back to the task's  *)
(* name and then to "No description", names not passed fall back to        *)
(* "No project", "" and no tags, a missing or unparseable duration gives   *)
(* duration_sec = 0, and a missing start timestamp gives start_date None.  *)
C14Original ==
    (result.done /\ call.fn = "TimeEntry" /\ OptionalFieldsOnly(call.entry_data)) =>
        LET e  == call.entry_data
            ti == e.timeInterval.value
        IN  /\ result.raised = None
            /\ Missing(e.description) =>
                  result.value.description =
                     IF e.task.present /\ ~Missing(e.task.value.name)
                     THEN e.task.value.name.value.text
                     ELSE NoDescription
            /\ ~call.args.project_name.present => result.value.project_name = "No project"
            /\ ~call.args.task_name.present => result.value.task_name = ""
            /\ ~call.args.tag_names.present => result.value.tag_names = <<>>
            /\ (Missing(ti.duration) \/ GetField(ti.duration).text = TextInvalid) =>
                  result.value.duration_sec = 0
            /\ Missing(ti.start) => result.value.start_date = None

-----------------------------------------------------------------------------
AllDigits(name, a, b) == \A n \in a..b : name[n] \in DigitChars

\* name[i..j] is an annotation {pH:MM} whose colon is at k.
AnnotationAt(name, i, k, j) ==
    /\ k > i + 2 /\ j - k \in {2, 3} /\ j <= Len(name)
    /\ name[i] = "{" /\ name[i + 1] = "p"
    /\ AllDigits(name, i + 2, k - 1)
    /\ name[k] = ":"
    /\ AllDigits(name, k + 1, j - 1)
    /\ name[j] = "}"

Annotations(name) ==
    LET opening == {i \in DOMAIN name : name[i] = "{"}
        colon   == {k \in DOMAIN name : name[k] = ":"}
    IN  {a \in UNION {{<<i, k, k + 2>>, <<i, k, k + 3>>} : i \in opening, k \in colon} :
            AnnotationAt(name, a[1], a[2], a[3])}

(* C15.  parse_planned_from_name returns H*3600 + MM*60 for the first      *)
(* annotation {pH:MM} of the label (H one or more digits, MM one or two),  *)
(* minutes of 60 and more are taken as they are ({p1:75} gives 8100), and  *)
(* a label without such an annotation ({p1:}, {p:75}, {px:75}, "") gives   *)
(* 0; the result is never negative.                                        *)
C15Theorem ==
    (result.done /\ call.fn = "parse_planned_from_name") =>
        LET name == call.name
            found == Annotations(name)
        IN  /\ result.raised = None
            /\ result.value >= 0
            /\ found = {} => result.value = 0
            /\ \A a \in found :
                  (\A b \in found : a[1] <= b[1]) =>
                     result.value = IntOf(name, a[1] + 2, a[2] - 1) * 3600
                                      + IntOf(name, a[2] + 1, a[3] - 1) * 60
            /\ name = <<"{", "p", "1", ":", "7", "5", "}">> => result.value = 8100
            /\ name \in { <<>>, <<"x">>, <<"{", "p", "1", ":", "}">>,
                          <<"{", "p", ":", "7", "5", "}">>,
                          <<"{", "p", "x", ":", "7", "5", "}">> } => result.value = 0

\* A label with two annotations, the second with 75 minutes, has been
\* parsed: the first one counts.
C15Witness ==
    /\ result.done
    /\ call.fn = "parse_planned_from_name"
    /\ call.name = <<"{", "p", "2", ":", "0", "5", "}", "{", "p", "1", ":", "7", "5", "}">>
    /\ result.value = 7500

-----------------------------------------------------------------------------
\* text[a..b-1] is empty, or digits followed by the unit letter.
DurationPart(text, a, b, unit) ==
    \/ b = a
    \/ b >= a + 2 /\ AllDigits(text, a, b - 2) /\ text[b - 1] = unit

PartValue(text, a, b) == IF b = a THEN 0 ELSE IntOf(text, a, b - 2)

\* The ways to read the whole text as PT[hH][mM][sS].
DurationReadings(text) ==
    IF Len(text) < 2 \/ text[1] # "P" \/ text[2] # "T" THEN {}
    ELSE {r \in (3..(Len(text) + 1)) \X (3..(Len(text) + 1)) :
            /\ r[1] <= r[2]
            /\ DurationPart(text, 3, r[1], "H")
            /\ DurationPart(text, r[1], r[2], "M")
            /\ DurationPart(text, r[2], Len(text) + 1, "S")}

(* C16.  parse_clockify_duration returns h*3600 + m*60 + s for a text of   *)
(* the form PT[hH][mM][sS], an absent component counting 0, and returns 0  *)
(* for None, for the empty text and for any text that is not of that form; *)
(* the result is never negative.                                           *)
C16Original ==
    (result.done /\ call.fn = "parse_clockify_duration") =>
        LET text == call.duration.text
        IN  /\ result.raised = None
            /\ result.value >= 0
            /\ \A r \in DurationReadings(text) :
                  result.value = PartValue(text, 3, r[1]) * 3600
                                   + PartValue(text, r[1], r[2]) * 60
                                   + PartValue(text, r[2], Len(text) + 1)
            /\ DurationReadings(text) = {} => result.value = 0

-----------------------------------------------------------------------------
\* A report has been returned.
Reported == report.done /\ report.raised = None

NonIncreasing(secs) == \A i \in 1..(Len(secs) - 1) : secs[i] >= secs[i + 1]

\* The total in seconds behind each row of the project table and of the
\* sub-task table, in the order of the rows.
ProjectRowSeconds ==
    [i \in DOMAIN report.proj_table |->
        DictAt(project_durations, report.proj_table[i].project)]

SubprojectRowSeconds ==
    [i \in DOMAIN report.subproject_table |->
        DictAt(report.subproject_durations,
               <<report.subproject_table[i].subproject,
                 report.subproject_table[i].project>>)]

(* C17.  In the project table and in the sub-task table, the rows appear   *)
(* in non-increasing order of the row's total duration in seconds, for     *)
(* every batch.                                                            *)
C17Original ==
    Reported => NonIncreasing(ProjectRowSeconds) /\ NonIncreasing(SubprojectRowSeconds)

-----------------------------------------------------------------------------
\* The tag column of the tag table.
TagColumn == [i \in DOMAIN report.tag_table |-> report.tag_table[i].tag]

\* Tag a belongs before tag b: a tag of custom_tag_order before any other
\* tag, two tags of the list in the list's order, two other tags in the
\* order in which the batch first names them.
BelongsBefore(a, b) ==
    IF InList(custom_tag_order, a)
    THEN InList(custom_tag_order, b) =>
            IndexIn(custom_tag_order, a) < IndexIn(custom_tag_order, b)
    ELSE /\ ~InList(custom_tag_order, b)
         /\ FirstSeen(entries, a) < FirstSeen(entries, b)

(* C18.  In the tag table the tags of custom_tag_order (matched by exact   *)
(* string) come first, in that list's order, followed by all remaining     *)
(* tags in the order in which they were first encountered in the batch.    *)
C18Original ==
    Reported =>
        \A i, j \in DOMAIN TagColumn :
            i < j => BelongsBefore(TagColumn[i], TagColumn[j])

-----------------------------------------------------------------------------
\* The total of a spontaneity class.
ClassTotal(symbol) == DictGet(spontaneousity_durations, symbol, 0)

\* The symbol column of the spontaneity table.
SymbolColumn == [i \in DOMAIN report.spont_table |-> report.spont_table[i].symbol]

(* C19.  The spontaneity table lists the scheduled row before the          *)
(* spontaneous row, omits a class whose total duration is 0, and is not    *)
(* emitted at all when both class totals are 0.                            *)
C19Theorem ==
    Reported =>
        /\ SymbolColumn =
              (IF ClassTotal("<cal>") > 0 THEN <<"<cal>">> ELSE <<>>)
                 \o (IF ClassTotal("<dice>") > 0 THEN <<"<dice>">> ELSE <<>>)
        /\ InList(report.sections, "spont")
              <=> (ClassTotal("<cal>") # 0 \/ ClassTotal("<dice>") # 0)

\* A report over a batch with time in both classes, the spontaneous entry
\* first: the table has the scheduled row and then the spontaneous row.
C19Witness ==
    /\ Reported
    /\ Len(entries) = 2
    /\ entries[1].is_spontaneous
    /\ ClassTotal("<cal>") > 0
    /\ ClassTotal("<dice>") > 0
    /\ SymbolColumn = <<"<cal>", "<dice>">>

-----------------------------------------------------------------------------
\* The rows of the dimension tables whose own duration is 0.
ZeroRows ==
    { report.subproject_table[i] : i \in { j \in DOMAIN report.subproject_table :
                                              SubprojectRowSeconds[j] = 0 } }
    \cup { report.proj_table[i] : i \in { j \in DOMAIN report.proj_table :
                                            ProjectRowSeconds[j] = 0 } }
    \cup { report.tag_table[i] : i \in { j \in DOMAIN report.tag_table :
                                           DictAt(tag_durations, TagColumn[j]) = 0 } }
    \cup { report.spont_table[i] : i \in { j \in DOMAIN report.spont_table :
                                             ClassTotal(SymbolColumn[j]) = 0 } }

(* C20.  No percentage computed while rendering divides by zero: when      *)
(* total_duration is 0 the totals table reports 0% for the over, under and *)
(* abs rows, a dimension row whose own duration is 0 reports "0" in its    *)
(* Meas>Plan% and Meas<Plan% columns, and generate_report completes        *)
(* without a fault for every batch, the empty batch and batches of         *)
(* zero-duration entries included.                                         *)
C20Theorem ==
    report.done =>
        /\ report.raised = None
        /\ total_duration = 0 =>
              \A i \in 2..4 : report.totals_table[i].pct = <<"0", "%">>
        /\ \A row \in ZeroRows : row.more_pct = <<"0">> /\ row.less_pct = <<"0">>

\* A report over a batch of two planned entries of zero duration: the
\* grand total is 0, the under-plan total is not, and every row has
\* duration 0.
C20Witness ==
    /\ report.done
    /\ Len(entries) = 2
    /\ total_duration = 0
    /\ plan_deviation_totals.under > 0
    /\ \E row \in ZeroRows : row.more_pct = <<"0">>
    /\ report.totals_table[3].pct = <<"0", "%">>

-----------------------------------------------------------------------------
\* A second generator has been built.
BuiltAgain == call.fn = "ReportGenerator" /\ Built

\* Two reports come from calls with the same day_table: both hold the
\* entries table, or neither.
SameCall(r1, r2) == InList(r1.sections, "entries") <=> InList(r2.sections, "entries")

\* A generator built from the same batch, with as many calls of
\* generate_report behind it and the last one alike, equals the first in
\* every attribute and in the report.
C21Rebuilt ==
    ( /\ BuiltAgain
      /\ entries = result.value.entries
      /\ report.calls = result.value.report.calls
      /\ SameCall(report, result.value.report) ) => Generator = result.value

\* A further call with the same day_table returns the report of the call
\* before it.
C21Repeated ==
    ( /\ report.done
      /\ report'.done
      /\ report'.calls = report.calls + 1
      /\ SameCall(report, report') ) => [report' EXCEPT !.calls = report.calls] = report

(* C21.  Report generation is idempotent and carries no state between      *)
(* runs: building a ReportGenerator twice from the same entry batch yields *)
(* equal totals, occurrences and per-dimension allocations, and calling    *)
(* generate_report repeatedly on the same generator returns the same text  *)
(* every time.                                                             *)
C21Theorem == []C21Rebuilt /\ [][C21Repeated]_vars

\* A second generator over the same two entries, with tag deviations, has
\* reported twice as the first had, and its report equals the first's.
C21Witness ==
    /\ BuiltAgain
    /\ Len(entries) = 2
    /\ entries = result.value.entries
    /\ tag_plan_diffs # <<>>
    /\ report.calls = 2
    /\ result.value.report.calls = 2
    /\ report = result.value.report

-----------------------------------------------------------------------------
\* The processed entries whose description is d.
Described(d) == {i \in Processed : entries[i].description = d}

(* C22.  task_planned_measured[d] holds, for each description d, planned = *)
(* the sum of planned_sec and measured = the sum of duration_sec over all  *)
(* entries whose description is d, whatever their project, sub-task, date  *)
(* and recurrence; an entry without a plan annotation contributes planned  *)
(* 0 and its full duration as measured.                                    *)
C22Theorem ==
    /\ DictKeys(task_planned_measured) = {entries[i].description : i \in Processed}
    /\ \A k \in DOMAIN task_planned_measured :
          LET d == task_planned_measured[k].k
              S == Described(d)
          IN  /\ task_planned_measured[k].v.planned =
                    SumFn([i \in S |-> entries[i].planned_sec], S)
              /\ task_planned_measured[k].v.measured =
                    SumFn([i \in S |-> entries[i].duration_sec], S)
              /\ Annotations(d) = {} =>
                    /\ task_planned_measured[k].v.planned = 0
                    /\ task_planned_measured[k].v.measured = DurationOf(S)

\* Two entries of one description, in different projects and on different
\* days, are summed under that description.
C22Witness ==
    /\ Grouped
    /\ Len(entries) = 2
    /\ entries[1].description = entries[2].description
    /\ entries[1].project_name # entries[2].project_name
    /\ entries[1].start # entries[2].start
    /\ DictAt(task_planned_measured, entries[1].description) =
          [planned |-> 7200, measured |-> 7200]

-----------------------------------------------------------------------------
\* This step is a call of generate_report.
Rendering == report'.calls = report.calls + 1

(* C23.  generate_report treats the aggregation results as read-only:      *)
(* after rendering, occurrences, plan_deviation_totals, the duration maps  *)
(* and the four per-dimension deviation maps (project_plan_diffs,          *)
(* subproject_plan_diffs, tag_plan_diffs, spont_plan_diffs) contain        *)
(* exactly the same keys and values as before the call.                    *)
C23Original ==
    [][ Rendering =>
          UNCHANGED <<occurrences, plan_deviation_totals, total_duration,
                      project_durations, tag_durations, spontaneousity_durations,
                      project_plan_diffs, subproject_plan_diffs, tag_plan_diffs,
                      spont_plan_diffs>> ]_vars

-----------------------------------------------------------------------------
\* The places <<k, j>> at which entry i stands as member j of occurrence k.
PlacesOf(i) ==
    { p \in UNION { {<<k, j>> : j \in DOMAIN occurrences[k].entries} :
                      k \in DOMAIN occurrences } :
        occurrences[p[1]].entries[p[2]] = entries[i] }

MemberPlanned(occ) == SumSeq([j \in DOMAIN occ.entries |-> occ.entries[j].planned_sec])

MemberMeasured(occ) == SumSeq([j \in DOMAIN occ.entries |-> occ.entries[j].duration_sec])

(* C24.  The occurrences partition the batch: every entry is a member of   *)
(* exactly one occurrence, each occurrence's planned and measured are the  *)
(* sums of its member entries' planned_sec and duration_sec, and therefore *)
(* the sum of measured over all occurrences equals total_duration and the  *)
(* member counts sum to the number of entries.                             *)
C24Theorem ==
    Built =>
        /\ \A i \in DOMAIN entries : Cardinality(PlacesOf(i)) = 1
        /\ \A k \in DOMAIN occurrences :
              /\ occurrences[k].entries # <<>>
              /\ occurrences[k].planned = MemberPlanned(occurrences[k])
              /\ occurrences[k].measured = MemberMeasured(occurrences[k])
        /\ SumSeq([k \in DOMAIN occurrences |-> occurrences[k].measured]) = total_duration
        /\ SumSeq([k \in DOMAIN occurrences |-> Len(occurrences[k].entries)])
              = Len(entries)

\* Two entries of a recurring task on one day have been gathered into one
\* occurrence of two members.
C24Witness ==
    /\ Built
    /\ Len(entries) = 2
    /\ entries[1].is_recurring
    /\ entries[1].start # entries[2].start
    /\ Len(occurrences) = 1
    /\ Len(occurrences[1].entries) = 2
    /\ occurrences[1].measured = 7200

-----------------------------------------------------------------------------
\* The three flags of an entry.
FlagsOf(e) == <<e.is_spontaneous, e.is_scheduled, e.is_recurring>>

(* C25.  All member entries of one occurrence share the same description   *)
(* and therefore the same is_spontaneous, is_scheduled and is_recurring    *)
(* flags and the same per-entry planned_sec (so an occurrence of n entries *)
(* has planned = n times the annotated plan); hence the spontaneity class  *)
(* an occurrence's deviation is credited to does not depend on which       *)
(* member entry comes first.                                               *)
C25Theorem ==
    Built =>
        \A k \in DOMAIN occurrences :
            LET occ == occurrences[k]
            IN  /\ \A j \in DOMAIN occ.entries :
                      /\ occ.entries[j].description = occ.description
                      /\ FlagsOf(occ.entries[j]) = FlagsOf(occ.entries[1])
                      /\ occ.entries[j].planned_sec = occ.entries[1].planned_sec
                /\ occ.planned = Len(occ.entries) * occ.entries[1].planned_sec
                /\ \A members \in Permuted(occ.entries) :
                      AllocateSpontaneity(<<>>, [occ EXCEPT !.entries = members])
                        = AllocateSpontaneity(<<>>, occ)

\* An occurrence of two entries that carry both markers, planned twice
\* 30 minutes, has been credited to the spontaneous class.
C25Witness ==
    /\ Built
    /\ Len(occurrences) = 1
    /\ Len(occurrences[1].entries) = 2
    /\ FlagsOf(occurrences[1].entries[2]) = <<TRUE, TRUE, FALSE>>
    /\ occurrences[1].planned = 3600
    /\ occurrences[1].diff # 0
    /\ DictKeys(spont_plan_diffs) = {"<dice>"}

-----------------------------------------------------------------------------
\* A dictionary as the set of its items, whatever their order.
ItemsOf(d) == {<<d[i].k, d[i].v>> : i \in DOMAIN d}

\* The occurrences as a set, each with its members as a set.
OccurrenceSet(occs) ==
    { [ description |-> occs[k].description, project |-> occs[k].project,
        task_name |-> occs[k].task_name, date |-> occs[k].date,
        planned |-> occs[k].planned, measured |-> occs[k].measured,
        diff |-> occs[k].diff,
        members |-> {occs[k].entries[j] : j \in DOMAIN occs[k].entries} ] :
        k \in DOMAIN occs }

(* C26.  plan_deviation_totals, the project deviation buckets and the      *)
(* sub-task deviation buckets are invariant under every reordering of the  *)
(* input entries: any permutation of the same batch yields the same set of *)
(* occurrences with the same planned/measured sums and the same over/under *)
(* values per project and per sub-task.                                    *)
C26Theorem ==
    (BuiltAgain /\ report.calls = result.value.report.calls) =>
        /\ plan_deviation_totals = result.value.plan_deviation_totals
        /\ OccurrenceSet(occurrences) = OccurrenceSet(result.value.occurrences)
        /\ Len(occurrences) = Len(result.value.occurrences)
        /\ ItemsOf(project_plan_diffs) = ItemsOf(result.value.project_plan_diffs)
        /\ ItemsOf(subproject_plan_diffs) = ItemsOf(result.value.subproject_plan_diffs)

\* The second generator got the two entries in the other order: its
\* occurrences and project buckets stand in another order, with the same
\* values.
C26Witness ==
    /\ BuiltAgain
    /\ report.calls = result.value.report.calls
    /\ Len(entries) = 2
    /\ entries # result.value.entries
    /\ occurrences # result.value.occurrences
    /\ project_plan_diffs # result.value.project_plan_diffs
    /\ plan_deviation_totals.over > 0
    /\ plan_deviation_totals.under > 0

-----------------------------------------------------------------------------
(* C27.  Each entry's duration is added to at most one spontaneity class   *)
(* total: to spontaneous if its label has the spontaneous marker (even if  *)
(* it also has the scheduled marker), otherwise to scheduled if it has the *)
(* scheduled marker, otherwise to neither; so the two class totals         *)
(* together never exceed total_duration.                                   *)
C27Theorem ==
    /\ DictKeys(spontaneousity_durations) = {"<dice>", "<cal>"}
    /\ ClassTotal("<dice>") = DurationOf({i \in Processed : entries[i].is_spontaneous})
    /\ ClassTotal("<cal>") =
          DurationOf({i \in Processed :
                        ~entries[i].is_spontaneous /\ entries[i].is_scheduled})
    /\ ClassTotal("<dice>") + ClassTotal("<cal>") <= total_duration

\* An entry with both markers and an entry with neither have been
\* processed: the first counts as spontaneous only, the second not at all.
C27Witness ==
    /\ Grouped
    /\ Len(entries) = 2
    /\ entries[1].is_spontaneous /\ entries[1].is_scheduled
    /\ ~entries[2].is_spontaneous /\ ~entries[2].is_scheduled
    /\ entries[2].duration_sec > 0
    /\ ClassTotal("<dice>") = entries[1].duration_sec
    /\ ClassTotal("<cal>") = 0
    /\ ClassTotal("<dice>") < total_duration

-----------------------------------------------------------------------------
\* write_markdown has returned or exited.
Wrote == call.fn = "write_markdown" /\ result.done

\* Text a is the beginning of text b.
IsPrefix(a, b) == Len(a) <= Len(b) /\ SubSeq(b, 1, Len(a)) = a

(* C28.  write_markdown never discards existing file content unless        *)
(* overwrite is true: when the file exists and overwrite is false the new  *)
(* content is appended after the existing content, with the                *)
(* '# Analysis of ...' title written only if the existing file is empty;   *)
(* when the file is created or overwritten the title is written exactly    *)
(* once before the content.                                                *)
C28Theorem ==
    Wrote =>
        LET before == call.file
            after  == result.value
        IN  /\ ~call.overwrite => IsPrefix(before.text, after.text)
            /\ (before.kind = "file" /\ ~call.overwrite) =>
                  after.text =
                     before.text
                       \o (IF before.text = <<>> THEN <<Title>> ELSE <<>>)
                       \o call.content
            /\ (before.kind = "absent" \/ (before.kind = "file" /\ call.overwrite)) =>
                  after.text = <<Title>> \o call.content
            /\ before.kind = "dir" => after = before

\* The third run appends to a file that the first two runs created and
\* appended to: one title, then the three contents.
C28Witness ==
    /\ Wrote
    /\ call.run = 3
    /\ ~call.overwrite
    /\ call.file.text = <<Title, "a", "b">>
    /\ result.value.text = <<Title, "a", "b", "a">>

-----------------------------------------------------------------------------
\* A paginated api_get call.
Paginating == call.fn = "api_get" /\ call.paginate

\* The answer was a JSON list of fewer than page_size items.
ShortPage(resp) ==
    resp.kind = "json" /\ resp.data.type = "list" /\ Len(resp.data.items) < page_size

RECURSIVE Concatenated(_)
\* The items of the received answers, in request order.
Concatenated(received) ==
    IF received = <<>> THEN <<>>
    ELSE Concatenated(SubSeq(received, 1, Len(received) - 1))
           \o received[Len(received)].data.items

(* C29.  With paginate=True, api_get requests pages 1, 2, 3, ... in        *)
(* increasing order with page-size 50, stops after the first page that     *)
(* holds fewer than 50 items, and returns the concatenation of all         *)
(* received pages in request order with no item lost or duplicated; the    *)
(* loop ends exactly when the server returns a short (possibly empty)      *)
(* page, and a failed request on any page raises RequestException without  *)
(* returning a partial result.                                             *)
C29Original ==
    Paginating =>
        LET n == Len(call.received)
        IN  /\ \A i \in 1..Len(call.sent) :
                  call.sent[i]["page"] = i /\ call.sent[i]["page-size"] = 50
            /\ \A i \in 1..(n - 1) : ~ShortPage(call.received[i])
            /\ (result.done /\ result.raised = None)
                  <=> (n > 0 /\ ShortPage(call.received[n]))
            /\ (result.done /\ result.raised = None) =>
                  result.value = JsonList(Concatenated(call.received))
            /\ (n > 0 /\ call.received[n].kind = "failed") =>
                  result = ApiRaised("RequestException")

-----------------------------------------------------------------------------
\* The dates of the month of a month-breakdown call.
MonthDates == call.first_of_month .. call.last_of_month

\* The ranges are consecutive, clipped to the month, and cover it from its
\* first to its last day.
PartitionsMonth(week_ranges) ==
    /\ week_ranges # <<>>
    /\ week_ranges[1][1] = call.first_of_month
    /\ week_ranges[Len(week_ranges)][2] = call.last_of_month
    /\ \A i \in 1..Len(week_ranges) : week_ranges[i][1] <= week_ranges[i][2]
    /\ \A i \in 1..(Len(week_ranges) - 1) :
          week_ranges[i + 1][1] = week_ranges[i][2] + 1
    /\ \A date \in MonthDates :
          Cardinality({i \in 1..Len(week_ranges) :
                          week_ranges[i][1] <= date /\ date <= week_ranges[i][2]}) = 1

\* Every entry stands in exactly one sub-report.
EntriesOnce(reports, starts) ==
    \A date \in MonthDates :
       LET inBatch == Cardinality({i \in 1..Len(starts) : starts[i] = date})
           places  == {<<r, k>> \in (1..Len(reports)) \X (1..Len(starts)) :
                          k <= Len(reports[r].entries) /\ reports[r].entries[k] = date}
       IN  /\ Cardinality(places) = inBatch
           /\ Cardinality({r \in 1..Len(reports) :
                              \E k \in 1..Len(reports[r].entries) :
                                 reports[r].entries[k] = date}) <= 1

\* Every start of the batch is a date.
StartsAreDates == \A i \in 1..Len(call.starts) : call.starts[i] # Unparseable

(* C30.  In month mode with breakdown the computed week ranges are         *)
(* consecutive, clipped to the month, and partition it: every date from    *)
(* the first to the last day of the month lies in exactly one range, so    *)
(* every entry of the month (by start date) appears in exactly one weekly  *)
(* sub-report; the range-building loop ends for every month and every      *)
(* week_start in 0..6.                                                     *)
C30Original ==
    (call.fn = "month_breakdown" /\ StartsAreDates) =>
        /\ result.done \/ ENABLED NextMonth
        /\ Len(call.week_ranges) <= 6
        /\ result.done =>
              /\ result.raised = None
              /\ PartitionsMonth(call.week_ranges)
              /\ EntriesOnce(result.value, call.starts)

=============================================================================
